---- MODULE Spec2Model ----
(***************************************************************************)
(* A model of the UCAN inspector core: the UCAN container parser           *)
(* (utils/ucanContainer), the token analyser (utils/ucanAnalysis) and the  *)
(* inspection state machine (composables/inspector/useUcanInspection).     *)
(*                                                                         *)
(* The specifications of the module:                                       *)
(*   SpecContainer  the container parser applied to bounded inputs         *)
(*   SpecAnalysis   analyseBytes / buildTimeline applied to bounded inputs *)
(*   Spec           the runAnalysis / clearInput state machine             *)
(*   SpecLive       the same with pending analyses settling eventually     *)
(*   SpecExport     stringifyReportWithFormat applied to bounded reports   *)
(*   SpecKeyOrder   stringifyExportValue applied to bounded values         *)
(*   SpecInputSync  the input / URL / auto-inspect wiring of the component *)
(*   SpecDebounce   useDebouncedCallback over a discrete clock             *)
(*   SpecDebugLog   useDebugLog                                            *)
(***************************************************************************)
EXTENDS Integers, Sequences, FiniteSets, TLC

VARIABLES
    \* ---- container parser (SpecContainer) ----
    cInput,        \* the container handed to the parser
    cEntry,        \* "text" | "bytes" | "none": entry point that was called
    cResult,       \* outcome of the parse
    cOther,        \* outcome of parsing the same container with its tokens reordered
    cPc,           \* "ready" | "parsed" | "reparsed"
    \* ---- token analyser (SpecAnalysis) ----
    aBytes,        \* the bytes handed to analyseBytes
    aEnv,          \* what the collaborators do with these bytes
    aIndex,        \* index argument
    aNow,          \* nowUnixSeconds() during the analysis
    aResult,       \* the settled promise
    aPrev,         \* the promise of the preceding analysis of the same bytes
    aPc,           \* "ready" | "done"
    \* ---- inspection state machine (Spec) ----
    inputValue, tokens, report, parseState, parseError, containerInfo,
    selectedTokenIndex, activeTab,
    parseTicket,   \* let parseTicket
    runs,          \* runAnalysis calls suspended at the await of Promise.all
    emitted,       \* callbacks invoked by the last step, in call order
    lastError,     \* last value delivered through onReportError ("unset" before any)
    commitOrder,   \* order in which the analyses of the last committed run completed
    cleared,       \* clearInput() was called and no runAnalysis call was started since
    commitTicket,  \* ticket of the run that committed tokens and report last (0: none)
    \* ---- report export (SpecExport) ----
    eReport,       \* the report handed to stringifyReportWithFormat
    eOptions,      \* options.includeRawBytes of the last call
    eOut,          \* the JSON document it returned
    ePc,           \* "ready" | "done"
    \* ---- export key order (SpecKeyOrder) ----
    kValue,        \* the value handed to stringifyExportValue
    kFormat,       \* "json" | "dag-json": format of the last call
    kOut,          \* the document it returned
    kPc,           \* "ready" | "done"
    \* ---- input synchronisation (SpecInputSync) ----
    sInput,            \* inputValue of the component
    suppressNextSync,  \* let suppressNextSync
    sUrl,              \* the ucan query parameter ("" when absent)
    sProps,            \* the props ucan, syncUrl, autoInspect
    sMounted,          \* onMounted has run
    sStep,             \* the step taken last
    sEffects,          \* what the last step did besides assigning
    \* ---- debounced callback (SpecDebounce) ----
    handle,        \* let handle (0: undefined)
    timers,        \* the timers setTimeout has pending
    nextHandle,    \* the id the next setTimeout returns
    clock,         \* ticks elapsed
    calls,         \* the callback invocations so far
    lastSchedule,  \* the last schedule call and what became of it
    tMounted,      \* the component is mounted
    \* ---- debug log (SpecDebugLog) ----
    maxEntries, debugEntries,
    pushed,        \* the entries pushed since the last clearDebug, in push order
    nextEntry      \* number of the next entry pushed

cVars == <<cInput, cEntry, cResult, cOther, cPc>>
aVars == <<aBytes, aEnv, aIndex, aNow, aResult, aPrev, aPc>>
iVars == <<inputValue, tokens, report, parseState, parseError, containerInfo,
           selectedTokenIndex, activeTab, parseTicket, runs, emitted, lastError,
           commitOrder, cleared, commitTicket>>
eVars == <<eReport, eOptions, eOut, ePc>>
kVars == <<kValue, kFormat, kOut, kPc>>
sVars == <<sInput, suppressNextSync, sUrl, sProps, sMounted, sStep, sEffects>>
tVars == <<handle, timers, nextHandle, clock, calls, lastSchedule, tMounted>>
lVars == <<maxEntries, debugEntries, pushed, nextEntry>>
vars == <<cVars, aVars, iVars, eVars, kVars, sVars, tVars, lVars>>

(***************************************************************************)
(* Bounds                                                                  *)
(***************************************************************************)
MaxTokens == 3
\* largest clock / exp / nbf value (whole Unix seconds)
MaxTime == 3
\* largest index handed to analyseBytes directly
MaxIndex == 1
\* number of runAnalysis calls in one behaviour
MaxRuns == 2
\* number of tokens in an exported report
MaxExportTokens == 2
\* number of members of an object matching no payload template
MaxPlainKeys == 3
\* the debounce delay, in ticks
DelayMs == 2
\* last tick of the clock
MaxClock == 5
\* number of schedule calls in one behaviour
MaxSchedules == 3
\* largest maxEntries handed to useDebugLog
MaxMaxEntries == 3
\* number of pushDebug calls in one behaviour
MaxPushes == 4

(***************************************************************************)
(* Generic helpers                                                         *)
(***************************************************************************)
SeqsUpTo(S, n) == UNION {[1..k -> S] : k \in 0..n}

Range(s) == {s[i] : i \in DOMAIN s}

Min(a, b) == IF a <= b THEN a ELSE b

Perms(n) == {p \in [1..n -> 1..n] : \A i, j \in 1..n : p[i] = p[j] => i = j}

(***************************************************************************)
(* CONTAINER PARSER  (utils/ucanContainer)                                 *)
(*                                                                         *)
(* Wire values.  A container is a header byte followed by a payload.  The  *)
(* payload is described by how the external codecs read it:                *)
(*   wrap  how the bytes after the header read as text                     *)
(*         txt  "binary"  not text at all (raw CBOR / gzip bytes)          *)
(*              "common"  base64 text using only A-Z a-z 0-9               *)
(*              "std"     base64 text using + or /                         *)
(*              "url"     base64url text using - or _                      *)
(*              "invalid" text with a character of neither alphabet        *)
(*              "empty"   nothing follows the header                       *)
(*         rem  number of data characters modulo 4                        *)
(*         pad  number of '=' characters at the end                        *)
(*   blob  the bytes the text decodes to (or the payload itself when the   *)
(*         wrap is "binary")                                               *)
(*         gz          "gzip": a gzip stream; "none": not a gzip stream    *)
(*         wellFormed  the (decompressed) bytes are well-formed CBOR       *)
(*         doc         the value that CBOR decodes to                      *)
(***************************************************************************)

\* Token byte strings used to fill containers: the empty string, a proper
\* prefix pair, a pair differing in the second byte and bytes above 127.
Tokens == { <<>>, <<1>>, <<1, 2>>, <<1, 200>>, <<200>> }

BytesElem(b) == [isBytes |-> TRUE, bytes |-> b]
\* a CBOR array element that is not a byte string (e.g. the array [1,2,3])
NonBytesElem == [isBytes |-> FALSE, bytes |-> <<>>]

Doc(kind, keys, isArray, items, bytes) ==
    [kind |-> kind, keys |-> keys, isArray |-> isArray, items |-> items, bytes |-> bytes]

\* {"ctn-v1": [tok, ...]}
ContainerDoc(toks) ==
    Doc("map", <<"ctn-v1">>, TRUE, [i \in DOMAIN toks |-> BytesElem(toks[i])], <<>>)

\* arrays made of a pair of tokens given twice over: <<a, b, a, b>>
DoubledArrays == {pair \o pair : pair \in Tokens \X Tokens}

ContainerDocs ==
    {ContainerDoc(t) : t \in SeqsUpTo(Tokens, MaxTokens) \cup DoubledArrays}

\* values that are not a canonical container: other CBOR kinds, other key
\* sets, a non-array "ctn-v1", arrays holding a non-byte-string element
OtherDocs ==
    {Doc(k, <<>>, FALSE, <<>>, <<>>) : k \in {"null", "int", "text", "array"}}
    \cup {Doc("bytes", <<>>, FALSE, <<>>, b) : b \in {<<>>, <<1>>, <<1, 2>>}}
    \cup {Doc("map", ks, TRUE, <<BytesElem(<<1>>)>>, <<>>) :
            ks \in {<<>>, <<"other">>, <<"ctn-v1", "extra">>, <<"extra", "ctn-v1">>}}
    \cup {Doc("map", <<"ctn-v1">>, FALSE, <<>>, <<>>)}
    \cup {Doc("map", <<"ctn-v1">>, TRUE, it, <<>>) :
            it \in {<<NonBytesElem>>, <<BytesElem(<<1>>), NonBytesElem>>,
                    <<NonBytesElem, BytesElem(<<200>>)>>}}

Blob(gz, wellFormed, doc) == [gz |-> gz, wellFormed |-> wellFormed, doc |-> doc]

Wrap(txt, rem, pad) == [txt |-> txt, rem |-> rem, pad |-> pad]

\* rfc4648 padding of a text with rem data characters modulo 4
FullPad(rem) == (4 - rem) % 4

TextWraps ==
    {w \in {Wrap(t, r, p) : t \in {"common", "std", "url"}, r \in {0, 2, 3}, p \in {0, 1, 2}} :
        w.pad <= FullPad(w.rem)}

Wraps == TextWraps \cup {Wrap("binary", 0, 0), Wrap("invalid", 0, 0), Wrap("empty", 0, 0)}

HeaderBytes == {64, 66, 67, 77, 79, 80}
\* first bytes outside the table: 'A' and 'n' (as in "not-container")
OtherHeaderBytes == {65, 110}

ContainerInput(h, w, b) == [header |-> h, wrap |-> w, blob |-> b]

\* The wrap and compression a producer uses for header h.
ProducerWrap(h) ==
    CASE h \in {64, 77} -> Wrap("binary", 0, 0)
      [] h \in {66, 79} -> Wrap("std", 2, 2)
      [] OTHER          -> Wrap("url", 2, 0)

ProducerGz(h) == IF h \in {77, 79, 80} THEN "gzip" ELSE "none"

\* well-formed containers under every header, and every header / wrap /
\* compression combination around a few documents
ContainerInputs ==
    {ContainerInput(h, ProducerWrap(h), Blob(ProducerGz(h), TRUE, d)) :
        h \in HeaderBytes, d \in ContainerDocs \cup OtherDocs}
    \cup
    {ContainerInput(h, w, Blob(g, wf, d)) :
        h \in HeaderBytes \cup OtherHeaderBytes, w \in Wraps,
        g \in {"none", "gzip"}, wf \in BOOLEAN,
        d \in {ContainerDoc(<<>>), ContainerDoc(<<<<1>>>>), Doc("int", <<>>, FALSE, <<>>, <<>>)}}
    \cup
    {[header |-> -1, wrap |-> Wrap("empty", 0, 0),
      blob |-> Blob("none", FALSE, Doc("null", <<>>, FALSE, <<>>, <<>>))]}

(*--------------------------- results -------------------------------------*)
NoHeader == [raw |-> 0, encoding |-> "", compression |-> ""]

\* the message each throw site gives its error (the interpolated detail left out)
ErrorMessage(code) ==
    CASE code = "empty_input" -> "Input is empty"
      [] code = "raw_bytes_header_in_text" -> "Header indicates a raw-bytes container"
      [] code = "unknown_header" -> "Unknown header byte"
      [] code = "empty_payload" -> "Container payload is empty"
      [] code = "base64_decode_failed" -> "Failed to decode base64 payload"
      [] code = "gzip_decompress_failed" -> "Failed to decompress gzip payload"
      [] code = "cbor_decode_failed" -> "Failed to decode CBOR payload"
      [] code = "cbor_not_map" -> "CBOR payload must be a map/object"
      [] code = "invalid_container_map_keys" -> "CBOR payload must be a map with exactly one key"
      [] code = "ctn_v1_not_array" -> "CBOR payload ctn-v1 must be an array"
      [] code = "token_not_byte_string" -> "Container token must be a CBOR byte string"
      [] OTHER -> ""

\* a thrown ContainerParseError(message, stage, code)
ContainerParseError(stage, code) ==
    [ok |-> FALSE, stage |-> stage, code |-> code, message |-> ErrorMessage(code),
     header |-> NoHeader, tokens |-> <<>>, diagnostics |-> <<>>]

ParseOk(header, toks, diags) ==
    [ok |-> TRUE, stage |-> "", code |-> "", message |-> "",
     header |-> header, tokens |-> toks, diagnostics |-> diags]

NoResult == ContainerParseError("none", "none")

\* message: the code stands for the fixed text; count is the number in it
Diagnostic(level, code, count) == [level |-> level, code |-> code, count |-> count]

(*--------------------------- header tables -------------------------------*)
HeaderInfo(encoding, compression, variant) ==
    [encoding |-> encoding, compression |-> compression, variant |-> variant]

\* the table with the two gzip base64 entries exchanged
headerTableSwapped ==
    [b \in HeaderBytes |->
        CASE b = 64 -> HeaderInfo("raw", "none", "standard")
          [] b = 66 -> HeaderInfo("base64", "none", "standard")
          [] b = 67 -> HeaderInfo("base64url", "none", "url")
          [] b = 77 -> HeaderInfo("raw", "gzip", "standard")
          [] b = 79 -> HeaderInfo("base64url", "gzip", "url")
          [] b = 80 -> HeaderInfo("base64", "gzip", "standard")]

headerTable ==
    [b \in HeaderBytes |->
        CASE b = 64 -> HeaderInfo("raw", "none", "standard")
          [] b = 66 -> HeaderInfo("base64", "none", "standard")
          [] b = 67 -> HeaderInfo("base64url", "none", "url")
          [] b = 77 -> HeaderInfo("raw", "gzip", "standard")
          [] b = 79 -> HeaderInfo("base64", "gzip", "standard")
          [] b = 80 -> HeaderInfo("base64url", "gzip", "url")]

\* a text table that also lists the two raw-bytes headers
textHeaderTableWithRaw ==
    [b \in HeaderBytes |->
        CASE b = 64 -> HeaderInfo("raw", "none", "standard")
          [] b = 66 -> HeaderInfo("base64", "none", "standard")
          [] b = 67 -> HeaderInfo("base64url", "none", "url")
          [] b = 77 -> HeaderInfo("raw", "gzip", "standard")
          [] b = 79 -> HeaderInfo("base64", "gzip", "standard")
          [] b = 80 -> HeaderInfo("base64url", "gzip", "url")]

textHeaderTable ==
    [b \in {66, 67, 79, 80} |->
        CASE b = 66 -> HeaderInfo("base64", "none", "standard")
          [] b = 67 -> HeaderInfo("base64url", "none", "url")
          [] b = 79 -> HeaderInfo("base64", "gzip", "standard")
          [] b = 80 -> HeaderInfo("base64url", "gzip", "url")]

looksLikeContainerHeader(input) == input.header \in DOMAIN headerTable

(*--------------------------- byte comparison -----------------------------*)
\* index of the first position where left and right differ, 0 if none
\* within the common length
FirstDiff(left, right) ==
    LET minLength == Min(Len(left), Len(right))
        diffs == {i \in 1..minLength : left[i] - right[i] # 0}
    IN IF diffs = {} THEN 0 ELSE CHOOSE i \in diffs : \A j \in diffs : i <= j

\* compareBytes without the length tie-break on a common prefix
compareBytesNoLength(left, right) ==
    LET i == FirstDiff(left, right)
    IN IF i # 0 THEN left[i] - right[i] ELSE 0

compareBytes(left, right) ==
    LET i == FirstDiff(left, right)
    IN IF i # 0 THEN left[i] - right[i] ELSE Len(left) - Len(right)

\* Array.prototype.sort(compareBytes): a stable sort by the comparator
RECURSIVE InsertSorted(_, _)
InsertSorted(x, sorted) ==
    IF sorted = <<>> THEN <<x>>
    ELSE IF compareBytes(sorted[1], x) > 0 THEN <<x>> \o sorted
    ELSE <<sorted[1]>> \o InsertSorted(x, Tail(sorted))

RECURSIVE SortBytes(_)
SortBytes(toks) ==
    IF toks = <<>> THEN <<>>
    ELSE InsertSorted(toks[Len(toks)], SortBytes(SubSeq(toks, 1, Len(toks) - 1)))

(*--------------------------- base64 --------------------------------------*)
\* encodeBase64(bytes, variant): the sextets of the rfc4648 encoding and the
\* number of '=' appended (none for the url variant)
RECURSIVE Sextets(_)
Sextets(bytes) ==
    IF Len(bytes) = 0 THEN <<>>
    ELSE IF Len(bytes) = 1 THEN
        << bytes[1] \div 4, (bytes[1] % 4) * 16 >>
    ELSE IF Len(bytes) = 2 THEN
        << bytes[1] \div 4, (bytes[1] % 4) * 16 + bytes[2] \div 16, (bytes[2] % 16) * 4 >>
    ELSE
        << bytes[1] \div 4, (bytes[1] % 4) * 16 + bytes[2] \div 16,
           (bytes[2] % 16) * 4 + bytes[3] \div 64, bytes[3] % 64 >>
           \o Sextets(SubSeq(bytes, 4, Len(bytes)))

encodeBase64(bytes, variant) ==
    [variant |-> variant,
     chars |-> Sextets(bytes),
     pad |-> IF variant = "url" THEN 0 ELSE FullPad(Len(Sextets(bytes)) % 4)]

\* decodeBase64(input, variant) succeeds when every character belongs to
\* the variant's alphabet and the padding is the variant's
decodeBase64Ok(wrap, variant) ==
    /\ wrap.txt \in {"common", IF variant = "url" THEN "url" ELSE "std"}
    /\ IF variant = "url" THEN wrap.pad = 0
       ELSE wrap.pad = FullPad(wrap.rem)

\* normalizeEncodedPayload reporting the missing padding without adding it
normalizeEncodedPayloadNoPad(wrap, variant) ==
    IF variant = "url" THEN
        [wrap |-> Wrap(wrap.txt, wrap.rem, 0),
         diagnostics |-> IF wrap.pad > 0
                         THEN <<Diagnostic("notice", "base64url_padding_present", 0)>>
                         ELSE <<>>]
    ELSE
        [wrap |-> wrap,
         diagnostics |-> IF (wrap.rem + wrap.pad) % 4 # 0
                         THEN <<Diagnostic("notice", "base64_padding_missing", 0)>>
                         ELSE <<>>]

\* normalizeEncodedPayload: [wrap: the normalized text, diagnostics]
normalizeEncodedPayload(wrap, variant) ==
    IF variant = "url" THEN
        [wrap |-> Wrap(wrap.txt, wrap.rem, 0),
         diagnostics |-> IF wrap.pad > 0
                         THEN <<Diagnostic("notice", "base64url_padding_present", 0)>>
                         ELSE <<>>]
    ELSE
        LET length == wrap.rem + wrap.pad
            padLength == (4 - (length % 4)) % 4
        IN [wrap |-> Wrap(wrap.txt, wrap.rem, wrap.pad + padLength),
            diagnostics |-> IF length % 4 # 0
                            THEN <<Diagnostic("notice", "base64_padding_missing", 0)>>
                            ELSE <<>>]

(*--------------------------- external codecs -----------------------------*)
\* an ungzip that hands back whatever it is given
ungzipOkAlways(blob) == TRUE

\* pako ungzip(bytes): succeeds on a gzip stream only
ungzipOk(blob) == blob.gz = "gzip"

ungzip(blob) == Blob("none", blob.wellFormed, blob.doc)

\* cborg decode(bytes): succeeds on well-formed CBOR only (a gzip stream
\* starts 0x1f 0x8b, which is not CBOR)
decodeCborOk(blob) == blob.gz = "none" /\ blob.wellFormed

\* bytes that no codec reads: base64 text taken as raw bytes
JunkBlob == Blob("none", FALSE, Doc("null", <<>>, FALSE, <<>>, <<>>))

(*--------------------------- shape validation ----------------------------*)
\* asKeyedMap: keys is null (isKeyed = FALSE) unless the value is a non-null,
\* non-array object.  A decoded CBOR byte string is a Uint8Array, which is
\* such an object: Object.keys gives its indices.
asKeyedMap(value) ==
    IF value.kind = "map" THEN [isKeyed |-> TRUE, keys |-> value.keys]
    ELSE IF value.kind = "bytes"
        THEN [isKeyed |-> TRUE, keys |-> [i \in 1..Len(value.bytes) |-> ToString(i - 1)]]
    ELSE [isKeyed |-> FALSE, keys |-> <<>>]

\* extractTokensStrict treating an empty array as a shape violation
extractTokensStrictRejectsEmpty(cbor, diagnostics) ==
    LET keyed == asKeyedMap(cbor)
        keys == keyed.keys
        fail(code) == [ok |-> FALSE, error |-> ContainerParseError("cbor", code),
                       tokens |-> <<>>, diagnostics |-> diagnostics]
    IN IF ~keyed.isKeyed THEN fail("cbor_not_map")
       ELSE IF Len(keys) # 1 \/ keys[1] # "ctn-v1" THEN fail("invalid_container_map_keys")
       ELSE IF ~cbor.isArray THEN fail("ctn_v1_not_array")
       ELSE IF Len(cbor.items) = 0 THEN fail("empty_container")
       ELSE IF \E i \in DOMAIN cbor.items : ~cbor.items[i].isBytes
            THEN fail("token_not_byte_string")
       ELSE [ok |-> TRUE, error |-> NoResult,
             tokens |-> [i \in DOMAIN cbor.items |-> cbor.items[i].bytes],
             diagnostics |-> diagnostics]

\* extractTokensStrict: [ok, error (when not ok), tokens, diagnostics]
extractTokensStrict(cbor, diagnostics) ==
    LET keyed == asKeyedMap(cbor)
        keys == keyed.keys
        fail(code) == [ok |-> FALSE, error |-> ContainerParseError("cbor", code),
                       tokens |-> <<>>, diagnostics |-> diagnostics]
    IN IF ~keyed.isKeyed THEN fail("cbor_not_map")
       ELSE IF Len(keys) # 1 \/ keys[1] # "ctn-v1" THEN fail("invalid_container_map_keys")
       ELSE IF ~cbor.isArray THEN fail("ctn_v1_not_array")
       ELSE IF \E i \in DOMAIN cbor.items : ~cbor.items[i].isBytes
            THEN fail("token_not_byte_string")
       ELSE [ok |-> TRUE, error |-> NoResult,
             tokens |-> [i \in DOMAIN cbor.items |-> cbor.items[i].bytes],
             diagnostics |->
                IF Len(cbor.items) = 0
                THEN Append(diagnostics, Diagnostic("notice", "empty_container", 0))
                ELSE diagnostics]

\* diagnoseCanonicality looking for duplicates among neighbours only
diagnoseCanonicalityAdjacent(toks, diagnostics) ==
    IF Len(toks) <= 1 THEN diagnostics
    ELSE
        LET duplicateCount == Cardinality({i \in 2..Len(toks) : toks[i - 1] = toks[i]})
            outOfOrder == \E i \in 2..Len(toks) : compareBytes(toks[i - 1], toks[i]) > 0
            d1 == IF duplicateCount > 0
                  THEN Append(diagnostics, Diagnostic("warn", "duplicate_tokens", duplicateCount))
                  ELSE diagnostics
        IN IF outOfOrder
           THEN Append(d1, Diagnostic("warn", "tokens_not_sorted", 0))
           ELSE d1

\* diagnoseCanonicality: the diagnostics with the canonicality warnings appended
diagnoseCanonicality(toks, diagnostics) ==
    IF Len(toks) <= 1 THEN diagnostics
    ELSE
        LET tokenKeys == [i \in DOMAIN toks |-> encodeBase64(toks[i], "url")]
            seen == [k \in Range(tokenKeys) |->
                        Cardinality({i \in DOMAIN tokenKeys : tokenKeys[i] = k})]
            duplicateCount == Cardinality({k \in DOMAIN seen : seen[k] > 1})
            outOfOrder == \E i \in 2..Len(toks) : compareBytes(toks[i - 1], toks[i]) > 0
            d1 == IF duplicateCount > 0
                  THEN Append(diagnostics, Diagnostic("warn", "duplicate_tokens", duplicateCount))
                  ELSE diagnostics
        IN IF outOfOrder
           THEN Append(d1, Diagnostic("warn", "tokens_not_sorted", 0))
           ELSE d1

\* the exposed token order: [...tokens].sort(compareBytes)
sortedTokens(toks) == IF Len(toks) > 1 THEN SortBytes(toks) ELSE toks

\* parseDecodedBytes diagnosing the tokens after sorting them
parseDecodedBytesDiagnosesSorted(headerRaw, headerEncoding, headerCompression, encodedBytes, diagnostics) ==
    IF headerCompression = "gzip" /\ ~ungzipOk(encodedBytes)
    THEN ContainerParseError("decompress", "gzip_decompress_failed")
    ELSE
        LET payloadBytes == IF headerCompression = "gzip" THEN ungzip(encodedBytes)
                            ELSE encodedBytes
        IN IF ~decodeCborOk(payloadBytes)
           THEN ContainerParseError("cbor", "cbor_decode_failed")
           ELSE
               LET extracted == extractTokensStrict(payloadBytes.doc, diagnostics)
               IN IF ~extracted.ok THEN extracted.error
                  ELSE ParseOk([raw |-> headerRaw, encoding |-> headerEncoding,
                                compression |-> headerCompression],
                               sortedTokens(extracted.tokens),
                               diagnoseCanonicality(sortedTokens(extracted.tokens),
                                                    extracted.diagnostics))

parseDecodedBytes(headerRaw, headerEncoding, headerCompression, encodedBytes, diagnostics) ==
    IF headerCompression = "gzip" /\ ~ungzipOk(encodedBytes)
    THEN ContainerParseError("decompress", "gzip_decompress_failed")
    ELSE
        LET payloadBytes == IF headerCompression = "gzip" THEN ungzip(encodedBytes)
                            ELSE encodedBytes
        IN IF ~decodeCborOk(payloadBytes)
           THEN ContainerParseError("cbor", "cbor_decode_failed")
           ELSE
               LET extracted == extractTokensStrict(payloadBytes.doc, diagnostics)
               IN IF ~extracted.ok THEN extracted.error
                  ELSE ParseOk([raw |-> headerRaw, encoding |-> headerEncoding,
                                compression |-> headerCompression],
                               sortedTokens(extracted.tokens),
                               diagnoseCanonicality(extracted.tokens, extracted.diagnostics))

(*--------------------------- entry points --------------------------------*)
parseUcanContainerText(input) ==
    IF input.header = -1 THEN ContainerParseError("header", "empty_input")
    ELSE IF input.header \notin DOMAIN textHeaderTable THEN
        IF input.header \in DOMAIN headerTable
        THEN ContainerParseError("header", "raw_bytes_header_in_text")
        ELSE ContainerParseError("header", "unknown_header")
    ELSE IF input.wrap.txt = "empty" THEN ContainerParseError("decode", "empty_payload")
    ELSE
        LET headerInfo == textHeaderTable[input.header]
            normalized == normalizeEncodedPayload(input.wrap, headerInfo.variant)
        IN IF ~decodeBase64Ok(normalized.wrap, headerInfo.variant)
           THEN ContainerParseError("decode", "base64_decode_failed")
           ELSE parseDecodedBytes(input.header, headerInfo.encoding, headerInfo.compression,
                                  input.blob, normalized.diagnostics)

parseUcanContainerBytes(input) ==
    IF input.header = -1 THEN ContainerParseError("header", "empty_input")
    ELSE IF input.header \notin DOMAIN headerTable
        THEN ContainerParseError("header", "unknown_header")
    ELSE
        LET headerInfo == headerTable[input.header]
        IN IF headerInfo.encoding = "raw" THEN
               parseDecodedBytes(input.header, headerInfo.encoding, headerInfo.compression,
                                 IF input.wrap.txt = "binary" THEN input.blob ELSE JunkBlob,
                                 <<>>)
           \* nothing after the header decodes to no bytes at all
           ELSE IF input.wrap.txt = "empty" THEN
               parseDecodedBytes(input.header, headerInfo.encoding, headerInfo.compression,
                                 JunkBlob, <<>>)
           ELSE
               LET normalized == normalizeEncodedPayload(input.wrap, headerInfo.variant)
               IN IF ~decodeBase64Ok(normalized.wrap, headerInfo.variant)
                  THEN ContainerParseError("decode", "base64_decode_failed")
                  ELSE parseDecodedBytes(input.header, headerInfo.encoding,
                                         headerInfo.compression, input.blob,
                                         normalized.diagnostics)

(***************************************************************************)
(* TOKEN ANALYSER  (utils/ucanAnalysis)                                    *)
(*                                                                         *)
(* A token is described by what the collaborators do with its bytes:       *)
(*   decode   "ok" | "throws" | "throwsNoMessage"  (iso-ucan decodeEnvelope)*)
(*   spec     envelope.spec: "dlg" | "inv" | "xyz" | "" (absent)           *)
(*   version  envelope.version is present                                  *)
(*   hasNonce payload.nonce is present                                     *)
(*   exp, nbf payload.exp / payload.nbf (Unset: null / undefined)          *)
(*   verify   "ok" | "throwsUnsupported" | "throwsOther" (verifySignature) *)
(*   cid      "ok" | "throws"                      (iso-ucan computeCid)   *)
(***************************************************************************)
Unset == [isSet |-> FALSE, v |-> 0]
At(n) == [isSet |-> TRUE, v |-> n]
Times == {Unset} \cup {At(n) : n \in 0..MaxTime}

AnalysisToken(decode, spec, version, hasNonce, exp, nbf, verify, cid) ==
    [decode |-> decode, spec |-> spec, version |-> version, hasNonce |-> hasNonce,
     exp |-> exp, nbf |-> nbf, verify |-> verify, cid |-> cid]

UndecodableTokens ==
    {AnalysisToken(d, "", FALSE, FALSE, Unset, Unset, "throwsOther", "throws") :
        d \in {"throws", "throwsNoMessage"}}

DecodableTokens ==
    {AnalysisToken("ok", sp, ver, non, exp, nbf, vf, cid) :
        sp \in {"dlg", "inv", "xyz", ""}, ver \in BOOLEAN, non \in BOOLEAN,
        exp \in Times, nbf \in Times,
        vf \in {"ok", "throwsUnsupported", "throwsOther"}, cid \in {"ok", "throws"}}

AnalysisTokens == UndecodableTokens \cup DecodableTokens

Issue(level, code, message) == [level |-> level, code |-> code, message |-> message]

(*--------------------------- timeline ------------------------------------*)
\* buildTimeline with nbf >= nowSeconds as the pending test
buildTimelineInclusive(exp, nbf, nowSeconds) ==
    LET s1 == IF exp.isSet
              THEN (IF exp.v < nowSeconds THEN "expired" ELSE "valid")
              ELSE "none"
    IN IF nbf.isSet /\ nbf.v >= nowSeconds THEN "pending" ELSE s1

\* buildTimeline with exp <= nowSeconds as the expiry test
buildTimelineExpiresAtExp(exp, nbf, nowSeconds) ==
    LET s1 == IF exp.isSet
              THEN (IF exp.v <= nowSeconds THEN "expired" ELSE "valid")
              ELSE "none"
    IN IF nbf.isSet /\ nbf.v > nowSeconds THEN "pending" ELSE s1

\* buildTimeline(exp, nbf) evaluated at nowSeconds: the state field
buildTimeline(exp, nbf, nowSeconds) ==
    LET s0 == "none"
        s1 == IF exp.isSet
              THEN (IF exp.v < nowSeconds THEN "expired" ELSE "valid")
              ELSE s0
    IN IF nbf.isSet /\ nbf.v > nowSeconds THEN "pending" ELSE s1

(*--------------------------- signature verification ----------------------*)
SignatureInsight(status, reason) == [status |-> status, reason |-> reason]

\* the message of the error verifySignature throws
VerifierMessage(env) ==
    IF env.verify = "throwsUnsupported" THEN "No verification method" ELSE "Invalid signature"

isUnsupportedReason(message) ==
    message \in {"unsupported", "No verification method", "No DID Document",
                 "fetch is not defined"}

\* verifyDelegationSignature(bytes): decodes the envelope again; never throws
verifyDelegationSignature(env) ==
    IF env.decode # "ok" THEN SignatureInsight("failed", "Invalid envelope")
    ELSE IF env.spec # "dlg"
        THEN SignatureInsight("unsupported", "Unsupported payload spec: " \o env.spec)
    ELSE IF env.verify = "ok" THEN SignatureInsight("verified", "")
    ELSE IF isUnsupportedReason(VerifierMessage(env))
        THEN SignatureInsight("unsupported", VerifierMessage(env))
    ELSE SignatureInsight("failed", VerifierMessage(env))

\* verifyInvocationSignature reporting what it cannot verify as skipped
verifyInvocationSignatureSkips(env) ==
    IF env.spec # "inv"
        THEN SignatureInsight("skipped", "Unsupported payload spec: " \o env.spec)
    ELSE IF env.verify = "ok" THEN SignatureInsight("verified", "")
    ELSE IF isUnsupportedReason(VerifierMessage(env))
        THEN SignatureInsight("skipped", VerifierMessage(env))
    ELSE SignatureInsight("failed", VerifierMessage(env))

\* verifyInvocationSignature(envelope): never throws
verifyInvocationSignature(env) ==
    IF env.spec # "inv"
        THEN SignatureInsight("unsupported", "Unsupported payload spec: " \o env.spec)
    ELSE IF env.verify = "ok" THEN SignatureInsight("verified", "")
    ELSE IF isUnsupportedReason(VerifierMessage(env))
        THEN SignatureInsight("unsupported", VerifierMessage(env))
    ELSE SignatureInsight("failed", VerifierMessage(env))

(*--------------------------- envelope decode -----------------------------*)
\* decodeEnvelopeSafe(bytes): [ok, issues]
decodeEnvelopeSafe(token) ==
    IF token.decode = "ok" THEN
        [ok |-> TRUE,
         issues |-> IF ~token.version \/ token.spec = ""
                    THEN <<Issue("notice", "missing_header_fields",
                                 "Envelope header is missing version/spec fields.")>>
                    ELSE <<>>]
    ELSE
        [ok |-> FALSE,
         issues |-> <<Issue("warn", "envelope_decode_failed",
                            IF token.decode = "throws" THEN "Invalid envelope"
                            ELSE "Unable to decode envelope")>>]

(*--------------------------- analyses ------------------------------------*)
TokenId(index) == "token-" \o ToString(index)

\* a resolved promise carrying a TokenAnalysis
Analysis(id, index, type, reason, bytes, issues, signature, timeline) ==
    [settled |-> "resolved", id |-> id, index |-> index, type |-> type,
     reason |-> reason, bytes |-> bytes, issues |-> issues,
     signature |-> signature, timeline |-> timeline]

\* a rejected promise (an exception escaping the async function)
Rejected(bytes, message) ==
    [settled |-> "rejected", id |-> "", index |-> 0, type |-> "",
     reason |-> message, bytes |-> bytes, issues |-> <<>>,
     signature |-> SignatureInsight("", ""), timeline |-> ""]

NoAnalysis(bytes) ==
    [settled |-> "pending", id |-> "", index |-> 0, type |-> "",
     reason |-> "", bytes |-> bytes, issues |-> <<>>,
     signature |-> SignatureInsight("", ""), timeline |-> ""]

\* analyseDelegationEnvelope raising signature_invalid for every signature
\* that is not verified
analyseDelegationEnvelopeFlagsUnverified(bytes, env, id, index, initialIssues, nowSeconds) ==
    LET signature == verifyDelegationSignature(env)
        issues == IF signature.status # "verified"
                  THEN Append(initialIssues,
                              Issue("warn", "signature_invalid", signature.reason))
                  ELSE initialIssues
        timeline == buildTimeline(env.exp, env.nbf, nowSeconds)
    IN IF env.cid = "throws" THEN Rejected(bytes, "computeCid failed")
       ELSE IF ~env.hasNonce THEN Rejected(bytes, "TypeError")
       ELSE Analysis(id, index, "delegation", "", bytes, issues, signature, timeline)

\* analyseDelegationEnvelope: the promise it returns
analyseDelegationEnvelope(bytes, env, id, index, initialIssues, nowSeconds) ==
    LET signature == verifyDelegationSignature(env)
        issues == IF signature.status = "failed"
                  THEN Append(initialIssues,
                              Issue("warn", "signature_invalid", signature.reason))
                  ELSE initialIssues
        timeline == buildTimeline(env.exp, env.nbf, nowSeconds)
    IN \* (await computeCid(envelope)).toString()
       IF env.cid = "throws" THEN Rejected(bytes, "computeCid failed")
       \* encodeBase64(nonce) with payload.nonce undefined
       ELSE IF ~env.hasNonce THEN Rejected(bytes, "TypeError")
       ELSE Analysis(id, index, "delegation", "", bytes, issues, signature, timeline)

\* analyseInvocationEnvelope: the promise it returns
analyseInvocationEnvelope(bytes, env, id, index, initialIssues, nowSeconds) ==
    LET signature == verifyInvocationSignature(env)
        issues == IF signature.status = "failed"
                  THEN Append(initialIssues,
                              Issue("warn", "signature_invalid", signature.reason))
                  ELSE initialIssues
        timeline == buildTimeline(env.exp, env.nbf, nowSeconds)
    IN IF env.cid = "throws" THEN Rejected(bytes, "computeCid failed")
       ELSE IF ~env.hasNonce THEN Rejected(bytes, "TypeError")
       ELSE Analysis(id, index, "invocation", "", bytes, issues, signature, timeline)

\* analyseBytes(bytes, index) at clock nowSeconds, env being what the
\* collaborators do with these bytes
analyseBytes(bytes, index, nowSeconds, env) ==
    LET id == TokenId(index)
        envelopeResult == decodeEnvelopeSafe(env)
    IN IF ~envelopeResult.ok THEN
           LET reason == envelopeResult.issues[1].message
           IN Analysis(id, index, "unknown", reason, bytes, envelopeResult.issues,
                       SignatureInsight("skipped", reason), "")
       ELSE IF env.spec = "dlg" THEN
           analyseDelegationEnvelope(bytes, env, id, index, envelopeResult.issues, nowSeconds)
       ELSE IF env.spec = "inv" THEN
           analyseInvocationEnvelope(bytes, env, id, index, envelopeResult.issues, nowSeconds)
       ELSE
           LET reason == "Unsupported payload spec: "
                            \o (IF env.spec = "" THEN "undefined" ELSE env.spec)
           IN Analysis(id, index, "unknown", reason, bytes,
                       Append(envelopeResult.issues,
                              Issue("warn", "unsupported_payload_spec", reason)),
                       SignatureInsight("skipped", reason), "")

(***************************************************************************)
(* SpecContainer: the container parser applied to a bounded set of inputs  *)
(***************************************************************************)
ContainerIdle ==
    /\ cEntry = "none" /\ cResult = NoResult /\ cOther = NoResult /\ cPc = "ready"

AnalysisIdle ==
    /\ aBytes = <<>> /\ aIndex = 0 /\ aNow = 0 /\ aPc = "ready"
    /\ aResult = NoAnalysis(<<>>) /\ aPrev = NoAnalysis(<<>>)

ParseText ==
    /\ cPc = "ready"
    /\ cEntry' = "text"
    /\ cResult' = parseUcanContainerText(cInput)
    /\ cPc' = "parsed"
    /\ UNCHANGED <<cInput, cOther, aVars, iVars, eVars, kVars, sVars, tVars, lVars>>

ParseBytes ==
    /\ cPc = "ready"
    /\ cEntry' = "bytes"
    /\ cResult' = parseUcanContainerBytes(cInput)
    /\ cPc' = "parsed"
    /\ UNCHANGED <<cInput, cOther, aVars, iVars, eVars, kVars, sVars, tVars, lVars>>

\* the same container with the elements of its array in another order
Reordered(input, p) ==
    [input EXCEPT !.blob.doc.items = [i \in DOMAIN input.blob.doc.items |->
                                        input.blob.doc.items[p[i]]]]

ParseReordered ==
    /\ cPc = "parsed"
    /\ \E p \in Perms(Len(cInput.blob.doc.items)) :
          cOther' = IF cEntry = "text"
                    THEN parseUcanContainerText(Reordered(cInput, p))
                    ELSE parseUcanContainerBytes(Reordered(cInput, p))
    /\ cPc' = "reparsed"
    /\ UNCHANGED <<cInput, cEntry, cResult, aVars, iVars, eVars, kVars, sVars, tVars, lVars>>

NextContainer == ParseText \/ ParseBytes \/ ParseReordered

(***************************************************************************)
(* SpecAnalysis: analyseBytes applied to a bounded set of tokens           *)
(***************************************************************************)
AnalyseBytes ==
    /\ aPc = "ready"
    /\ aResult' = analyseBytes(aBytes, aIndex, aNow, aEnv)
    /\ aPc' = "done"
    /\ UNCHANGED <<aBytes, aEnv, aIndex, aNow, aPrev, cVars, iVars, eVars, kVars, sVars, tVars, lVars>>

\* the same bytes analysed again after Date.now() has advanced
Reanalyse ==
    /\ aPc = "done"
    /\ \E later \in (aNow + 1)..MaxTime :
          /\ aNow' = later
          /\ aResult' = analyseBytes(aBytes, aIndex, later, aEnv)
    /\ aPrev' = aResult
    /\ UNCHANGED <<aBytes, aEnv, aIndex, aPc, cVars, iVars, eVars, kVars, sVars, tVars, lVars>>

NextAnalysis == AnalyseBytes \/ Reanalyse

(***************************************************************************)
(* INSPECTION STATE MACHINE  (composables/inspector/useUcanInspection)     *)
(*                                                                         *)
(* The text in the input box is a container input (header, wrap, blob)     *)
(* with, for the raw-token path, how the whole trimmed string reads:       *)
(*   whole  "std" | "url": the base64 decoder that accepts the whole       *)
(*          string; "none": neither does                                   *)
(*   bytes  the bytes the whole string decodes to                          *)
(*   utf8   TextEncoder().encode(string)                                   *)
(***************************************************************************)
TextInput(h, w, b, whole, bytes, utf8) ==
    [header |-> h, wrap |-> w, blob |-> b, whole |-> whole, bytes |-> bytes, utf8 |-> utf8]

EmptyText ==
    TextInput(-1, Wrap("empty", 0, 0), JunkBlob, "none", <<>>, <<>>)

InputValues ==
    { EmptyText,
      \* "B..." a container of two tokens, not in canonical order
      TextInput(66, Wrap("std", 2, 2), Blob("none", TRUE, ContainerDoc(<< <<200>>, <<1>> >>)),
                "none", <<>>, <<66, 1>>),
      \* "C..." a container with an empty array
      TextInput(67, Wrap("url", 2, 0), Blob("none", TRUE, ContainerDoc(<<>>)),
                "url", <<1, 2>>, <<67, 1>>),
      \* "O..." a base64 token that happens to start with a header character
      TextInput(79, Wrap("std", 0, 0), Blob("none", FALSE, Doc("null", <<>>, FALSE, <<>>, <<>>)),
                "std", <<1, 200>>, <<79, 1>>),
      \* "not-container": neither a container nor base64
      TextInput(110, Wrap("invalid", 0, 0), JunkBlob, "none", <<>>, <<110, 1>>) }

\* what the collaborators may do with a token during a run
RunEnvs ==
    { AnalysisToken("ok", "dlg", TRUE, TRUE, Unset, Unset, "ok", "ok"),
      AnalysisToken("throws", "", FALSE, FALSE, Unset, Unset, "throwsOther", "throws"),
      AnalysisToken("ok", "dlg", TRUE, TRUE, Unset, Unset, "ok", "throws") }

NullError == "null"

\* createReport(source, rawInput, container, tokens, issues); createdAt left out
createReport(source, rawInput, hasContainer, container, toks, issues) ==
    [isNull |-> FALSE, source |-> source, rawInput |-> rawInput,
     hasContainer |-> hasContainer, container |-> container,
     tokens |-> toks, issues |-> issues]

NullReport ==
    [isNull |-> TRUE, source |-> "", rawInput |-> EmptyText,
     hasContainer |-> FALSE, container |-> NoResult, tokens |-> <<>>, issues |-> <<>>]

\* decodeInputToTokenBytes(raw): [bytes, issues]
decodeInputToTokenBytes(raw) ==
    IF raw.whole \in {"std", "url"} THEN [bytes |-> raw.bytes, issues |-> <<>>]
    ELSE [bytes |-> raw.utf8,
          issues |-> <<Issue("notice", "raw_utf8_fallback",
                             "Input is not valid base64/base64url; treating it as UTF-8 bytes.")>>]

\* runAnalysis from its first line to the await: the locals it suspends with
\* (lines 122-163)
PrepareRun(raw, ticket) ==
    LET looks == looksLikeContainerHeader(raw)
        parsed == IF looks THEN parseUcanContainerText(raw) ELSE NoResult
        hasContainer == looks /\ parsed.ok
        issues1 == IF ~looks THEN <<>>
                   ELSE IF parsed.ok
                        THEN [i \in DOMAIN parsed.diagnostics |->
                                Issue(parsed.diagnostics[i].level, parsed.diagnostics[i].code,
                                      parsed.diagnostics[i].code)]
                        ELSE <<Issue("warn", parsed.code, parsed.message)>>
        bytes1 == IF hasContainer THEN parsed.tokens ELSE <<>>
        decoded == decodeInputToTokenBytes(raw)
        bytesList == IF Len(bytes1) = 0 THEN <<decoded.bytes>> ELSE bytes1
        issues == IF Len(bytes1) = 0 THEN issues1 \o decoded.issues ELSE issues1
    IN [ticket |-> ticket, raw |-> raw,
        source |-> IF hasContainer THEN "container" ELSE "raw",
        hasContainer |-> hasContainer,
        container |-> IF hasContainer THEN parsed ELSE NoResult,
        containerInfo |-> IF hasContainer /\ Len(bytes1) # 0 THEN parsed ELSE NoResult,
        issues |-> issues,
        bytesList |-> bytesList,
        results |-> [i \in DOMAIN bytesList |-> NoAnalysis(bytesList[i])],
        order |-> <<>>]

\* a ticket check that lets every run through
IsStaleNever(ticket) == FALSE

\* ticket !== parseTicket
IsStale(ticket) == ticket # parseTicket

\* results collected in completion order instead of by position
PromiseAllByCompletion(run) == [k \in DOMAIN run.order |-> run.results[run.order[k]]]

\* the array Promise.all resolves with: results by position
PromiseAll(run) == run.results

AnyRejected(run) == \E i \in DOMAIN run.results : run.results[i].settled = "rejected"
AllResolved(run) == \A i \in DOMAIN run.results : run.results[i].settled = "resolved"

\* the reason Promise.all rejects with: that of the first promise to reject
FirstRejection(run) ==
    LET ks == {k \in DOMAIN run.order : run.results[run.order[k]].settled = "rejected"}
        k0 == CHOOSE k \in ks : \A j \in ks : k <= j
    IN run.results[run.order[k0]].reason

committed == <<tokens, report, parseState, parseError, selectedTokenIndex, activeTab>>

\* the user edits the input box (v-model)
SetInput ==
    /\ \E v \in InputValues : v # inputValue /\ inputValue' = v
    /\ emitted' = <<>>
    /\ UNCHANGED <<tokens, report, parseState, parseError, containerInfo,
                   selectedTokenIndex, activeTab, parseTicket, runs, lastError, commitOrder, commitTicket, cleared, cVars, aVars, eVars, kVars, sVars, tVars, lVars>>

\* the user picks a token / a detail tab
SelectToken ==
    /\ \E i \in 0..(Len(tokens) - 1) : i # selectedTokenIndex /\ selectedTokenIndex' = i
    /\ emitted' = <<>>
    /\ UNCHANGED <<inputValue, tokens, report, parseState, parseError, containerInfo,
                   activeTab, parseTicket, runs, lastError, commitOrder, commitTicket, cleared, cVars, aVars, eVars, kVars, sVars, tVars, lVars>>

SelectTab ==
    /\ Len(tokens) > 0
    /\ \E t \in {"summary", "payload"} : t # activeTab /\ activeTab' = t
    /\ emitted' = <<>>
    /\ UNCHANGED <<inputValue, tokens, report, parseState, parseError, containerInfo,
                   selectedTokenIndex, parseTicket, runs, lastError, commitOrder, commitTicket,
                   cleared, cVars, aVars, eVars, kVars, sVars, tVars, lVars>>

\* runAnalysis(context) up to its return or its await
RunAnalysis ==
    /\ parseTicket < MaxRuns
    /\ parseTicket' = parseTicket + 1
    /\ cleared' = FALSE
    /\ IF inputValue = EmptyText THEN
           /\ tokens' = <<>>
           /\ report' = NullReport
           /\ containerInfo' = NoResult
           /\ parseState' = "idle"
           /\ parseError' = NullError
           /\ emitted' = <<"onReport", "onReportError">>
           /\ lastError' = NullError
           /\ UNCHANGED <<runs, selectedTokenIndex, activeTab>>
       ELSE
           LET run == PrepareRun(inputValue, parseTicket + 1)
           IN /\ parseState' = "parsing"
              /\ parseError' = NullError
              /\ containerInfo' = run.containerInfo
              /\ runs' = runs \cup {run}
              /\ emitted' = <<>>
              /\ UNCHANGED <<tokens, report, selectedTokenIndex, activeTab, lastError>>
    /\ UNCHANGED <<inputValue, commitOrder, commitTicket, cVars, aVars, eVars, kVars, sVars, tVars, lVars>>

\* one of the analyseBytes promises of a suspended run settles
SettleAnalysis ==
    /\ \E run \in runs : \E i \in DOMAIN run.results : \E env \in RunEnvs :
          /\ run.results[i].settled = "pending"
          /\ runs' = (runs \ {run}) \cup
                {[run EXCEPT !.results[i] = analyseBytes(run.bytesList[i], i - 1, aNow, env),
                             !.order = Append(run.order, i)]}
    /\ emitted' = <<>>
    /\ UNCHANGED <<inputValue, tokens, report, parseState, parseError, containerInfo,
                   selectedTokenIndex, activeTab, parseTicket, lastError, commitOrder, commitTicket,
                   cleared, cVars, aVars, eVars, kVars, sVars, tVars, lVars>>

\* runAnalysis from the await to its end (lines 165-209)
ResumeRun ==
    \E run \in runs :
        /\ AnyRejected(run) \/ AllResolved(run)
        /\ runs' = runs \ {run}
        /\ IF IsStale(run.ticket) THEN
               /\ emitted' = <<>>
               /\ UNCHANGED <<tokens, report, parseState, parseError,
                              selectedTokenIndex, activeTab, lastError, commitOrder, commitTicket>>
           ELSE IF AnyRejected(run) THEN
               /\ parseState' = "error"
               /\ parseError' = FirstRejection(run)
               /\ emitted' = <<"onReportError">>
               /\ lastError' = FirstRejection(run)
               /\ UNCHANGED <<tokens, report, selectedTokenIndex, activeTab, commitOrder, commitTicket>>
           ELSE
               LET analyses == PromiseAll(run)
               IN /\ tokens' = analyses
                  /\ selectedTokenIndex' = 0
                  /\ activeTab' = "summary"
                  /\ report' = createReport(run.source, run.raw, run.hasContainer,
                                            run.container, analyses, run.issues)
                  /\ parseState' = "ready"
                  /\ emitted' = <<"onReport", "onReportError">>
                  /\ lastError' = NullError
                  /\ commitOrder' = run.order
                  /\ commitTicket' = run.ticket
                  /\ UNCHANGED parseError
        /\ UNCHANGED <<inputValue, containerInfo, parseTicket, cleared, cVars, aVars, eVars, kVars, sVars, tVars, lVars>>

ClearInput ==
    /\ inputValue' = EmptyText
    /\ tokens' = <<>>
    /\ parseError' = NullError
    /\ report' = NullReport
    /\ containerInfo' = NoResult
    /\ parseState' = "idle"
    /\ emitted' = <<"onReport">>
    /\ cleared' = TRUE
    /\ UNCHANGED <<selectedTokenIndex, activeTab, parseTicket, runs, lastError, commitOrder, commitTicket,
                   cVars, aVars, eVars, kVars, sVars, tVars, lVars>>

InspectionIdle ==
    /\ tokens = <<>> /\ report = NullReport /\ parseState = "idle"
    /\ parseError = NullError /\ containerInfo = NoResult
    /\ selectedTokenIndex = 0 /\ activeTab = "summary"
    /\ parseTicket = 0 /\ runs = {} /\ emitted = <<>> /\ lastError = "unset"
    /\ commitOrder = <<>> /\ cleared = FALSE /\ commitTicket = 0

(***************************************************************************)
(* REPORT EXPORT  (utils/ucanAnalysis, stringifyReportWithFormat)          *)
(*                                                                         *)
(* A JSON value is a record                                                *)
(*   t    "str" | "num" | "null" | "undef" | "bytes" | "obj" | "arr"       *)
(*   s    the text of a string                                             *)
(*   b    the bytes of a Uint8Array                                        *)
(*   kids the members <<key, value>> of an object in enumeration order, or *)
(*        the elements <<"", value>> of an array                           *)
(* The text JSON.stringify returns is kept as the value it prints.  Every  *)
(* '"' inside a string is printed escaped, so the text holds the substring *)
(* "x" (quotes included) exactly when x is a member name or a whole string *)
(* value of that document.                                                 *)
(***************************************************************************)
JUndef == [t |-> "undef", s |-> "", b |-> <<>>, kids |-> <<>>]
JNull == [t |-> "null", s |-> "", b |-> <<>>, kids |-> <<>>]
JNum == [t |-> "num", s |-> "", b |-> <<>>, kids |-> <<>>]
JStr(s) == [t |-> "str", s |-> s, b |-> <<>>, kids |-> <<>>]
JBytes(b) == [t |-> "bytes", s |-> "", b |-> b, kids |-> <<>>]
JObj(kids) == [t |-> "obj", s |-> "", b |-> <<>>, kids |-> kids]
JArr(items) == [t |-> "arr", s |-> "", b |-> <<>>, kids |-> [i \in DOMAIN items |-> <<"", items[i]>>]]

\* a string, or undefined when absent (modelled by the empty text)
JOptStr(s) == IF s = "" THEN JUndef ELSE JStr(s)

KeysOf(value) == {value.kids[i][1] : i \in DOMAIN value.kids}
HasKey(value, key) == value.t = "obj" /\ key \in KeysOf(value)
Get(value, key) ==
    IF HasKey(value, key)
    THEN value.kids[CHOOSE i \in DOMAIN value.kids : value.kids[i][1] = key][2]
    ELSE JUndef

\* the rfc4648 alphabet
Base64Alphabet ==
    << "A", "B", "C", "D", "E", "F", "G", "H", "I", "J", "K", "L", "M", "N", "O", "P",
       "Q", "R", "S", "T", "U", "V", "W", "X", "Y", "Z", "a", "b", "c", "d", "e", "f",
       "g", "h", "i", "j", "k", "l", "m", "n", "o", "p", "q", "r", "s", "t", "u", "v",
       "w", "x", "y", "z", "0", "1", "2", "3", "4", "5", "6", "7", "8", "9", "+", "/" >>

RECURSIVE JoinText(_)
JoinText(parts) == IF Len(parts) = 0 THEN "" ELSE Head(parts) \o JoinText(Tail(parts))

\* the text encodeBase64(bytes) returns (standard alphabet, padded)
Base64Text(bytes) ==
    LET encoded == encodeBase64(bytes, "standard")
    IN JoinText([i \in DOMAIN encoded.chars |-> Base64Alphabet[encoded.chars[i] + 1]])
         \o JoinText([i \in 1..encoded.pad |-> "="])

(*--------------------------- key order -----------------------------------*)
delegationPayloadKeyOrder ==
    <<"iss", "aud", "sub", "cmd", "pol", "nonce", "meta", "nbf", "exp">>
invocationPayloadKeyOrder ==
    <<"iss", "sub", "aud", "cmd", "args", "prf", "meta", "nonce", "exp", "iat", "cause">>
invocationSummaryKeyOrder ==
    <<"iss", "sub", "aud", "cmd", "args", "proofs", "meta", "nonce", "nbf", "exp", "iat",
      "cause">>

\* the member names of the export in a.localeCompare(b) order
LexicalKeys ==
    <<"/", "10", "2", "alg", "algorithm", "args", "aud", "bytes", "cause", "cbor", "cid", "cmd", "code",
      "compression", "container", "createdAt", "ctn-v1", "diagnostics", "enc", "encoding",
      "envelope", "exp", "expLabel", "expRelative", "header", "iat", "id", "index", "iss",
      "issues", "json", "level", "message", "meta", "nbf", "nbfLabel", "nbfRelative",
      "nonce", "note", "payload", "payloadBytes", "pol", "prf", "proofs", "raw", "rawInput",
      "reason", "signature", "source", "spec", "state", "status", "sub", "timeline",
      "token", "tokenBase64", "tokens", "type", "version">>

\* getSpecKeyOrder(record): the template the record matches, <<>> for none
getSpecKeyOrder(keys) ==
    IF {"iss", "aud", "sub", "cmd", "pol", "nonce", "exp"} \subseteq keys
        THEN delegationPayloadKeyOrder
    ELSE IF {"iss", "sub", "cmd", "args", "prf", "nonce", "exp"} \subseteq keys
        THEN invocationPayloadKeyOrder
    ELSE IF {"iss", "sub", "cmd", "args", "proofs", "nonce", "exp"} \subseteq keys
        THEN invocationSummaryKeyOrder
    ELSE <<>>

\* getPreferredKeyOrder(record)
getPreferredKeyOrder(keys) ==
    LET specOrder == getSpecKeyOrder(keys)
        InSpec(k) == k \in keys
        Remaining(k) == k \in keys /\ k \notin Range(specOrder)
    IN SelectSeq(specOrder, InSpec) \o SelectSeq(LexicalKeys, Remaining)

\* the member names that are array indices, in ascending numeric order
IntegerKeys == <<"2", "10">>

\* the members of an object built by assigning entries in turn, in the order
\* Object.keys / JSON.stringify enumerate them: array-index names first in
\* ascending numeric order, then the other names in insertion order
OwnPropertyOrder(entries) ==
    LET built == JObj(entries)
        Present(k) == HasKey(built, k)
        indices == SelectSeq(IntegerKeys, Present)
        NotIndex(entry) == entry[1] \notin Range(IntegerKeys)
    IN [i \in DOMAIN indices |-> <<indices[i], Get(built, indices[i])>>]
         \o SelectSeq(entries, NotIndex)

\* normalizeForExportSerialization(value, {omitUndefinedProperties, ..})
RECURSIVE normalizeForExportSerialization(_, _)
normalizeForExportSerialization(value, omitUndefinedProperties) ==
    IF value.t = "arr" THEN
        [value EXCEPT !.kids = [i \in DOMAIN value.kids |->
            <<"", normalizeForExportSerialization(value.kids[i][2], omitUndefinedProperties)>>]]
    ELSE IF value.t # "obj" THEN value
    ELSE
        LET ordered == getPreferredKeyOrder(KeysOf(value))
            Kept(k) == ~(omitUndefinedProperties /\ Get(value, k).t = "undef")
            keys == SelectSeq(ordered, Kept)
        IN [value EXCEPT !.kids = OwnPropertyOrder([i \in DOMAIN keys |->
              <<keys[i], normalizeForExportSerialization(Get(value, keys[i]),
                                                         omitUndefinedProperties)>>])]

\* reportJsonReplacer(key, value)
reportJsonReplacer(value) ==
    IF value.t = "bytes" THEN JStr(Base64Text(value.b)) ELSE value

\* JSON.stringify(prepared, reportJsonReplacer, 2): the document printed.
\* Members whose value is undefined are left out; undefined array elements
\* print as null.
RECURSIVE JsonStringify(_)
JsonStringify(value) ==
    LET replaced == reportJsonReplacer(value)
    IN IF replaced.t = "arr" THEN
           [replaced EXCEPT !.kids = [i \in DOMAIN replaced.kids |->
               <<"", IF replaced.kids[i][2].t = "undef" THEN JNull
                     ELSE JsonStringify(replaced.kids[i][2])>>]]
       ELSE IF replaced.t = "obj" THEN
           LET Defined(kid) == kid[2].t # "undef"
               kept == SelectSeq(replaced.kids, Defined)
           IN [replaced EXCEPT !.kids = [i \in DOMAIN kept |->
                 <<kept[i][1], JsonStringify(kept[i][2])>>]]
       ELSE replaced

\* the texts that appear between quotes in a printed document
RECURSIVE QuotedStrings(_)
QuotedStrings(value) ==
    IF value.t = "str" THEN {value.s}
    ELSE IF value.t = "obj" THEN
        KeysOf(value) \cup UNION {QuotedStrings(value.kids[i][2]) : i \in DOMAIN value.kids}
    ELSE IF value.t = "arr" THEN
        UNION {QuotedStrings(value.kids[i][2]) : i \in DOMAIN value.kids}
    ELSE {}

(*--------------------------- export model --------------------------------*)
IssueJson(issue) ==
    JObj(<< <<"level", JStr(issue.level)>>, <<"code", JStr(issue.code)>>,
            <<"message", JStr(issue.message)>> >>)

\* the members a user put into payload.meta (delegation) or payload.args
\* (invocation)
UserRecord(keys) == JObj([i \in DOMAIN keys |-> <<keys[i], JNum>>])

\* buildTokenExportModel with the raw bytes always included in base
TokenBaseFieldsWithBytes(token, includeRawBytes) ==
    << <<"id", JStr(token.id)>>, <<"index", JNum>>, <<"type", JStr(token.type)>>,
       <<"tokenBase64", JStr(Base64Text(token.bytes))>>,
       <<"issues", JArr([i \in DOMAIN token.issues |-> IssueJson(token.issues[i])])>>,
       <<"signature", JObj(<< <<"status", JStr(token.signature.status)>>,
                              <<"reason", JOptStr(token.signature.reason)>> >>)>>,
       <<"bytes", JBytes(token.bytes)>> >>

\* buildTokenExportModel: const base
TokenBaseFields(token, includeRawBytes) ==
    << <<"id", JStr(token.id)>>, <<"index", JNum>>, <<"type", JStr(token.type)>>,
       <<"tokenBase64", JStr(Base64Text(token.bytes))>>,
       <<"issues", JArr([i \in DOMAIN token.issues |-> IssueJson(token.issues[i])])>>,
       <<"signature", JObj(<< <<"status", JStr(token.signature.status)>>,
                              <<"reason", JOptStr(token.signature.reason)>> >>)>> >>
    \o (IF includeRawBytes THEN << <<"bytes", JBytes(token.bytes)>> >> ELSE <<>>)

\* token.payload with the nonce decoded back to bytes
TokenPayload(token) ==
    IF token.type = "delegation" THEN
        JObj(<< <<"iss", JStr("did:key:issuer")>>, <<"aud", JStr("did:key:audience")>>,
                <<"sub", JNull>>, <<"cmd", JStr("/store/add")>>, <<"pol", JArr(<<>>)>>,
                <<"exp", JNum>>, <<"nbf", JUndef>>,
                <<"meta", IF Len(token.user) = 0 THEN JUndef ELSE UserRecord(token.user)>>,
                <<"nonce", JBytes(token.nonce)>> >>)
    ELSE
        JObj(<< <<"iss", JStr("did:key:issuer")>>, <<"aud", JStr("did:key:audience")>>,
                <<"sub", JStr("did:key:subject")>>, <<"cmd", JStr("/store/add")>>,
                <<"args", UserRecord(token.user)>>, <<"proofs", JArr(<<>>)>>,
                <<"exp", JNum>>, <<"nbf", JUndef>>, <<"iat", JUndef>>, <<"meta", JUndef>>,
                <<"cause", JUndef>>, <<"nonce", JBytes(token.nonce)>> >>)

\* token.json.envelope.payload with the nonce decoded back to bytes
TokenJsonPayload(token) ==
    IF token.type = "delegation" THEN
        JObj(<< <<"iss", JStr("did:key:issuer")>>, <<"aud", JStr("did:key:audience")>>,
                <<"sub", JNull>>, <<"cmd", JStr("/store/add")>>, <<"pol", JArr(<<>>)>>,
                <<"exp", JNum>>, <<"nbf", JUndef>>,
                <<"nonce", JBytes(token.nonce)>>,
                <<"meta", IF Len(token.user) = 0 THEN JUndef ELSE UserRecord(token.user)>> >>)
    ELSE
        JObj(<< <<"iss", JStr("did:key:issuer")>>, <<"aud", JStr("did:key:audience")>>,
                <<"sub", JStr("did:key:subject")>>, <<"cmd", JStr("/store/add")>>,
                <<"args", UserRecord(token.user)>>, <<"exp", JNum>>,
                <<"nonce", JBytes(token.nonce)>>, <<"prf", JArr(<<>>)>>,
                <<"cause", JUndef>> >>)

\* buildTokenExportModel(token, {includeRawBytes})
buildTokenExportModel(token, includeRawBytes) ==
    LET base == TokenBaseFields(token, includeRawBytes)
    IN IF token.type = "unknown" THEN JObj(base \o << <<"reason", JStr(token.reason)>> >>)
       ELSE
           LET jsonEnvelope ==
                   JObj(<< <<"payload", TokenJsonPayload(token)>>,
                           <<"signature", JBytes(<<7, 7, 7>>)>>,
                           <<"alg", JStr("EdDSA")>>, <<"enc", JStr("DAG-CBOR")>>,
                           <<"spec", JStr(IF token.type = "delegation" THEN "dlg" ELSE "inv")>>,
                           <<"version", JStr("1.0.0-rc.1")>> >>)
               json ==
                   JObj((IF token.type = "delegation"
                         THEN << <<"token", JStr(Base64Text(token.bytes))>> >> ELSE <<>>)
                        \o << <<"cid", JStr("bafyreitoken")>>, <<"envelope", jsonEnvelope>> >>)
           IN JObj(base \o
                << <<"cid", JStr("bafyreitoken")>>,
                   <<"header", JObj(<< <<"algorithm", JStr("EdDSA")>>,
                                       <<"encoding", JStr("DAG-CBOR")>>,
                                       <<"version", JStr("1.0.0-rc.1")>>,
                                       <<"spec", JStr(IF token.type = "delegation"
                                                      THEN "dlg" ELSE "inv")>> >>)>>,
                   <<"payload", TokenPayload(token)>>,
                   <<"timeline", JObj(<< <<"expLabel", JStr("2026")>>,
                                         <<"expRelative", JStr("in 1 hour")>>,
                                         <<"nbfLabel", JStr("N/A")>>,
                                         <<"nbfRelative", JNull>>,
                                         <<"state", JStr(token.timeline)>> >>)>>,
                   <<"json", json>> >>)

\* buildReportExportModel(report, {includeRawBytes})
buildReportExportModel(rep, includeRawBytes) ==
    LET c == rep.container
        container ==
            JObj(<< <<"header", JObj(<< <<"raw", JNum>>,
                                        <<"encoding", JStr(c.header.encoding)>>,
                                        <<"compression", JStr(c.header.compression)>> >>)>>,
                    <<"diagnostics",
                      JArr([i \in DOMAIN c.diagnostics |->
                              JObj(<< <<"level", JStr(c.diagnostics[i].level)>>,
                                      <<"code", JStr(c.diagnostics[i].code)>>,
                                      <<"message", JStr("Container diagnostic")>> >>)])>> >>
                 \o (IF includeRawBytes
                     THEN << <<"payloadBytes", JBytes(<<161>>)>>,
                             <<"cbor", JObj(<< <<"ctn-v1",
                                   JArr([i \in DOMAIN c.tokens |-> JBytes(c.tokens[i])])>> >>)>>,
                             <<"tokens",
                               JArr([i \in DOMAIN c.tokens |-> JBytes(c.tokens[i])])>> >>
                     ELSE <<>>))
        toks == JArr([i \in DOMAIN rep.tokens |->
                        buildTokenExportModel(rep.tokens[i], includeRawBytes)])
    IN JObj(<< <<"source", JStr(rep.source)>>, <<"rawInput", JStr(rep.rawInput)>>,
               <<"tokens", toks>>,
               <<"issues", JArr([i \in DOMAIN rep.issues |-> IssueJson(rep.issues[i])])>>,
               <<"createdAt", JStr("2026-01-01T00:00:00.000Z")>> >>
            \o (IF rep.hasContainer THEN << <<"container", container>> >> ELSE <<>>))

\* stringifyReportWithFormat(report, {format: 'json', includeRawBytes})
stringifyReportWithFormat(rep, includeRawBytes) ==
    JsonStringify(normalizeForExportSerialization(
                      buildReportExportModel(rep, includeRawBytes), TRUE))

(*--------------------------- reports to export ---------------------------*)
\* what a token of the report carries besides its analysis
ExportTokenKinds ==
    {[env |-> AnalysisToken("throws", "", FALSE, FALSE, Unset, Unset, "throwsOther", "throws"),
      bytes |-> <<1, 2>>, nonce |-> <<>>, user |-> <<>>]}
    \cup
    {[env |-> AnalysisToken("ok", "dlg", TRUE, TRUE, At(1), Unset, vf, "ok"),
      bytes |-> <<1>>, nonce |-> n, user |-> u] :
        vf \in {"ok", "throwsOther"}, n \in {<<1>>, <<113, 186, 43>>},
        u \in {<<>>, <<"note">>, <<"bytes">>}}
    \cup
    {[env |-> AnalysisToken("ok", "inv", TRUE, TRUE, At(1), Unset, "ok", "ok"),
      bytes |-> <<200>>, nonce |-> <<1>>, user |-> u] : u \in {<<>>, <<"bytes">>}}

\* the analysis of the i-th token of a report, with its payload data
ExportToken(kind, i) ==
    analyseBytes(kind.bytes, i - 1, 0, kind.env) @@ [nonce |-> kind.nonce, user |-> kind.user]

RawTexts == {"bytes", "Qm9i"}

ExportReports ==
    {createReport("raw", "", FALSE, NoResult, <<>>, <<>>)}
    \cup
    {createReport(IF c THEN "container" ELSE "raw", raw, c,
                  IF c THEN ParseOk([raw |-> 66, encoding |-> "base64", compression |-> "none"],
                                    [i \in DOMAIN kinds |-> kinds[i].bytes],
                                    <<Diagnostic("warn", "tokens_not_sorted", 0)>>)
                  ELSE NoResult,
                  [i \in DOMAIN kinds |-> ExportToken(kinds[i], i)], <<>>) :
        raw \in RawTexts, c \in BOOLEAN,
        kinds \in SeqsUpTo(ExportTokenKinds, MaxExportTokens) \ {<<>>}}

(*--------------------------- SpecExport ----------------------------------*)
ExportIdle ==
    /\ eReport = NullReport /\ eOptions = FALSE /\ eOut = JUndef /\ ePc = "ready"

StringifyReportWithFormat ==
    /\ ePc = "ready"
    /\ \E includeRawBytes \in BOOLEAN :
          /\ eOptions' = includeRawBytes
          /\ eOut' = stringifyReportWithFormat(eReport, includeRawBytes)
    /\ ePc' = "done"
    /\ UNCHANGED <<eReport, cVars, aVars, iVars, kVars, sVars, tVars, lVars>>

NextExport == StringifyReportWithFormat

(*--------------------------- stringifyExportValue ------------------------*)
\* the text of bytes inside a DAG-JSON document: base64 without padding
DagJsonBytesText(bytes) ==
    LET encoded == encodeBase64(bytes, "standard")
    IN JoinText([i \in DOMAIN encoded.chars |-> Base64Alphabet[encoded.chars[i] + 1]])

\* encodeDagJson(value): the document written; bytes become {"/": {"bytes": text}}
\* and the members of a map are written in sorted order (on the member names
\* used here the codec's order and LexicalKeys agree)
RECURSIVE encodeDagJson(_)
encodeDagJson(value) ==
    IF value.t = "bytes" THEN
        JObj(<< <<"/", JObj(<< <<"bytes", JStr(DagJsonBytesText(value.b))>> >>)>> >>)
    ELSE IF value.t = "arr" THEN
        [value EXCEPT !.kids = [i \in DOMAIN value.kids |->
            <<"", encodeDagJson(value.kids[i][2])>>]]
    ELSE IF value.t = "obj" THEN
        LET Present(k) == HasKey(value, k)
            sorted == SelectSeq(LexicalKeys, Present)
        IN [value EXCEPT !.kids = [i \in DOMAIN sorted |->
              <<sorted[i], encodeDagJson(Get(value, sorted[i]))>>]]
    ELSE value

\* JSON.parse(document): the objects it builds, member by member
RECURSIVE JsonParse(_)
JsonParse(doc) ==
    IF doc.t = "arr" THEN
        [doc EXCEPT !.kids = [i \in DOMAIN doc.kids |-> <<"", JsonParse(doc.kids[i][2])>>]]
    ELSE IF doc.t = "obj" THEN
        [doc EXCEPT !.kids = OwnPropertyOrder([i \in DOMAIN doc.kids |->
            <<doc.kids[i][1], JsonParse(doc.kids[i][2])>>])]
    ELSE doc

\* toPrettyDagJsonStringWithPostProcess(value, applyPreferredKeyOrderDeep)
toPrettyDagJsonStringWithPostProcess(value) ==
    JsonStringify(normalizeForExportSerialization(JsonParse(encodeDagJson(value)), FALSE))

\* stringifyExportValue(value, format)
stringifyExportValue(value, format) ==
    LET prepared == normalizeForExportSerialization(value, TRUE)
    IN IF format = "dag-json" THEN toPrettyDagJsonStringWithPostProcess(prepared)
       ELSE JsonStringify(prepared)

(*--------------------------- values to serialize -------------------------*)
Entries(order, Value(_)) == [i \in DOMAIN order |-> <<order[i], Value(order[i])>>]

Reverse(s) == [i \in DOMAIN s |-> s[Len(s) + 1 - i]]

Rotate(s) == IF Len(s) = 0 THEN s ELSE Tail(s) \o <<Head(s)>>

\* insertion orders tried for a set of member names
InsertionOrders(keys) ==
    LET Present(k) == k \in keys
        lexical == SelectSeq(LexicalKeys, Present)
    IN {lexical, Reverse(lexical), Rotate(lexical)}

NumberValue(k) == JNum

\* the meta / args records put into a payload
NestedOrders == {<<"note">>, <<"note", "2">>, <<"10", "2">>, <<"2", "10">>}

PayloadValue(k, nested) ==
    IF k = "nonce" THEN JBytes(<<0, 1, 2>>)
    ELSE IF k \in {"pol", "prf", "proofs"} THEN JArr(<<>>)
    ELSE IF k \in {"exp", "nbf", "note", "2", "bytes"} THEN JNum
    ELSE IF k \in {"meta", "args"} THEN JObj(Entries(nested, NumberValue))
    ELSE JStr("did:example:" \o k)

DelegationKeySets ==
    {{"iss", "aud", "sub", "cmd", "pol", "nonce", "exp"} \cup optional \cup extra :
        optional \in SUBSET {"meta", "nbf"}, extra \in SUBSET {"note", "bytes", "2"}}

InvocationKeySets ==
    {{"iss", "sub", "cmd", "args", "nonce", "exp", proofs} \cup optional :
        proofs \in {"prf", "proofs"}, optional \in SUBSET {"aud"}}

PayloadObjects ==
    {LET Value(k) == PayloadValue(k, nested) IN JObj(Entries(order, Value)) :
        <<order, nested>> \in
            {<<o, n>> \in (UNION {InsertionOrders(keys) :
                              keys \in DelegationKeySets \cup InvocationKeySets})
                          \X NestedOrders :
                 ("meta" \in Range(o) \/ "args" \in Range(o)) \/ n = <<"note">>}}

\* objects matching no template: every insertion order of up to MaxPlainKeys
\* of these member names
PlainKeys == {"alg", "cid", "note", "2", "10"}

PlainObjects ==
    {JObj(Entries(order, NumberValue)) :
        order \in {o \in SeqsUpTo(PlainKeys, MaxPlainKeys) :
                      \A i, j \in DOMAIN o : o[i] = o[j] => i = j}}

ExportValues == PayloadObjects \cup PlainObjects

(*--------------------------- SpecKeyOrder --------------------------------*)
KeyOrderIdle ==
    /\ kValue = JUndef /\ kFormat = "json" /\ kOut = JUndef /\ kPc = "ready"

StringifyExportValue ==
    /\ kPc = "ready"
    /\ \E format \in {"json", "dag-json"} :
          /\ kFormat' = format
          /\ kOut' = stringifyExportValue(kValue, format)
    /\ kPc' = "done"
    /\ UNCHANGED <<kValue, cVars, aVars, iVars, eVars, sVars, tVars, lVars>>

NextKeyOrder == StringifyExportValue

(***************************************************************************)
(* INPUT SYNCHRONISATION  (useUcanUrlSync, useUcanUrlBootstrap,            *)
(* useInspectorInputSync, UcanInspector.loadMockToken)                     *)
(*                                                                         *)
(* Input texts are opaque; the URL parameter holds the text last written   *)
(* ("" when the parameter is absent).  A watcher runs when the value it    *)
(* watches differs from the value it saw last.                             *)
(***************************************************************************)
Texts == {"", "mock-delegation", "mock-invocation", "typed"}

\* getMockTokens(): the cached mock tokens by kind
MockTokens == [delegation |-> "mock-delegation", invocation |-> "mock-invocation"]

InspectorProps == [ucan : Texts, syncUrl : BOOLEAN, autoInspect : BOOLEAN]

\* writeToUrl(value): the parameter afterwards
writeToUrl(value) == value

\* watch(options.inputValue, ...): the flag and URL afterwards, and what it did
InputWatcher(value, suppressed, url, props) ==
    IF suppressed  \* consumeSuppressed()
    THEN [suppressNextSync |-> FALSE, url |-> url, effects |-> {}]
    ELSE [suppressNextSync |-> FALSE,
          url |-> IF props.syncUrl THEN writeToUrl(value) ELSE url,
          effects |-> (IF props.syncUrl THEN {"writeToUrl"} ELSE {})
                      \cup (IF props.autoInspect THEN {"schedule:input"} ELSE {})]

\* inputValue is assigned: the watcher runs when the value changed
AssignInput(value, suppressed, more) ==
    LET w == InputWatcher(value, suppressed, sUrl, sProps)
    IN /\ sInput' = value
       /\ IF value # sInput
          THEN /\ suppressNextSync' = w.suppressNextSync
               /\ sUrl' = w.url
               /\ sEffects' = w.effects \cup more
          ELSE /\ suppressNextSync' = suppressed
               /\ sUrl' = sUrl
               /\ sEffects' = more

\* useUcanUrlBootstrap: onMounted
UrlBootstrap ==
    /\ ~sMounted
    /\ sMounted' = TRUE
    /\ sStep' = "mount"
    /\ IF sUrl # ""  \* readFromUrl()
       THEN AssignInput(sUrl, TRUE,
                        IF sProps.autoInspect THEN {"runAnalysis:url-boot"} ELSE {})
       ELSE /\ sEffects' = IF sProps.ucan # "" /\ sProps.autoInspect
                           THEN {"runAnalysis:default-prop"} ELSE {}
            /\ UNCHANGED <<sInput, suppressNextSync, sUrl>>
    /\ UNCHANGED <<sProps, cVars, aVars, iVars, eVars, kVars, tVars, lVars>>

\* the user types into the input box (v-model)
UserEdit ==
    /\ sMounted
    /\ \E v \in Texts : v # sInput /\ AssignInput(v, suppressNextSync, {})
    /\ sStep' = "userEdit"
    /\ UNCHANGED <<sProps, sMounted, cVars, aVars, iVars, eVars, kVars, tVars, lVars>>

\* loadMockToken(kind); getMockTokens() may reject
LoadMockToken ==
    /\ sMounted
    /\ \E kind \in DOMAIN MockTokens : \E loaded \in BOOLEAN :
          IF loaded
          THEN /\ AssignInput(MockTokens[kind], TRUE,
                              IF sProps.autoInspect THEN {"schedule:mock"} ELSE {})
               /\ sStep' = "loadMock"
          ELSE /\ sStep' = "mockError" /\ sEffects' = {}
               /\ UNCHANGED <<sInput, suppressNextSync, sUrl>>
    /\ UNCHANGED <<sProps, sMounted, cVars, aVars, iVars, eVars, kVars, tVars, lVars>>

\* the host changes the ucan prop: watch(() => options.ucanProp(), ...)
PropChange ==
    /\ sMounted
    /\ \E v \in Texts :
          /\ v # sProps.ucan
          /\ sProps' = [sProps EXCEPT !.ucan = v]
          /\ IF v = ""
             THEN /\ sEffects' = {}
                  /\ UNCHANGED <<sInput, suppressNextSync, sUrl>>
             ELSE AssignInput(v, suppressNextSync,
                              IF sProps.autoInspect THEN {"schedule:prop-change"} ELSE {})
    /\ sStep' = "propChange"
    /\ UNCHANGED <<sMounted, cVars, aVars, iVars, eVars, kVars, tVars, lVars>>

\* the Clear button: clearInput() empties inputValue
ClearInputBox ==
    /\ sMounted
    /\ sInput # ""
    /\ AssignInput("", suppressNextSync, {})
    /\ sStep' = "clear"
    /\ UNCHANGED <<sProps, sMounted, cVars, aVars, iVars, eVars, kVars, tVars, lVars>>

InputSyncIdle ==
    /\ sInput = "" /\ suppressNextSync = FALSE /\ sUrl = ""
    /\ sProps = [ucan |-> "", syncUrl |-> TRUE, autoInspect |-> TRUE]
    /\ sMounted = FALSE /\ sStep = "none" /\ sEffects = {}

NextInputSync == UrlBootstrap \/ UserEdit \/ LoadMockToken \/ PropChange \/ ClearInputBox

(***************************************************************************)
(* DEBOUNCED CALLBACK  (composables/inspector/useDebouncedCallback)        *)
(*                                                                         *)
(* Time is counted in ticks.  A timer runs its callback at the tick it is  *)
(* due: the clock does not advance past a due timer.                       *)
(***************************************************************************)
Contexts == {"input", "prop-change", "mock-delegation"}

NoSchedule == [id |-> 0, at |-> 0, args |-> "", state |-> "none"]

\* clearTimeout(handle)
clearTimeout(pending, h) == {t \in pending : t.id # h}

\* a cancel() that leaves the timer running
cancelKeepsTimer(pending, h) == pending

\* cancel(): the timers left
cancel(pending, h) == IF h # 0 THEN clearTimeout(pending, h) ELSE pending

\* schedule(...args); callers may still hold it after the unmount
Schedule ==
    /\ nextHandle <= MaxSchedules
    /\ \E args \in Contexts :
          /\ timers' = cancel(timers, handle)
                         \cup {[id |-> nextHandle, due |-> clock + DelayMs, args |-> args]}
          /\ lastSchedule' = [id |-> nextHandle, at |-> clock, args |-> args,
                              state |-> "pending"]
    /\ handle' = nextHandle
    /\ nextHandle' = nextHandle + 1
    /\ UNCHANGED <<clock, calls, tMounted, cVars, aVars, iVars, eVars, kVars, sVars, lVars>>

\* cancel()
Cancel ==
    /\ timers' = cancel(timers, handle)
    /\ handle' = 0
    /\ lastSchedule' = IF lastSchedule.state = "pending"
                       THEN [lastSchedule EXCEPT !.state = "cancelled"] ELSE lastSchedule
    /\ UNCHANGED <<nextHandle, clock, calls, tMounted,
                   cVars, aVars, iVars, eVars, kVars, sVars, lVars>>

\* onBeforeUnmount(cancel)
Unmount ==
    /\ tMounted
    /\ tMounted' = FALSE
    /\ timers' = cancel(timers, handle)
    /\ handle' = 0
    /\ lastSchedule' = IF lastSchedule.state = "pending"
                       THEN [lastSchedule EXCEPT !.state = "cancelled"] ELSE lastSchedule
    /\ UNCHANGED <<nextHandle, clock, calls, cVars, aVars, iVars, eVars, kVars, sVars, lVars>>

\* a due timer runs: callback(...args); handle keeps the id of the timer
TimerFires ==
    /\ \E t \in timers :
          /\ t.due <= clock
          /\ timers' = timers \ {t}
          /\ calls' = Append(calls, [id |-> t.id, at |-> clock, args |-> t.args])
          /\ lastSchedule' = IF lastSchedule.id = t.id /\ lastSchedule.state = "pending"
                             THEN [lastSchedule EXCEPT !.state = "ran"] ELSE lastSchedule
    /\ UNCHANGED <<handle, nextHandle, clock, tMounted,
                   cVars, aVars, iVars, eVars, kVars, sVars, lVars>>

\* time passes
Tick ==
    /\ clock < MaxClock
    /\ \A t \in timers : t.due > clock
    /\ clock' = clock + 1
    /\ UNCHANGED <<handle, timers, nextHandle, calls, lastSchedule, tMounted,
                   cVars, aVars, iVars, eVars, kVars, sVars, lVars>>

DebounceIdle ==
    /\ handle = 0 /\ timers = {} /\ nextHandle = 1 /\ clock = 0
    /\ calls = <<>> /\ lastSchedule = NoSchedule /\ tMounted = TRUE

NextDebounce == Schedule \/ Cancel \/ Unmount \/ TimerFires \/ Tick

(***************************************************************************)
(* DEBUG LOG  (composables/inspector/useDebugLog)                          *)
(***************************************************************************)
Max(a, b) == IF a >= b THEN a ELSE b

\* Array.prototype.slice(start): a negative start counts from the end
SliceFrom(arr, start) ==
    LET from == IF start < 0 THEN Max(Len(arr) + start, 0) ELSE Min(start, Len(arr))
    IN SubSeq(arr, from + 1, Len(arr))

\* pushDebug(stage, level, detail)
PushDebug ==
    /\ nextEntry <= MaxPushes
    /\ \E level \in {"info", "error"} :
          LET entry == [id |-> nextEntry, level |-> level]
          IN /\ debugEntries' = Append(SliceFrom(debugEntries, -(maxEntries - 1)), entry)
             /\ pushed' = Append(pushed, entry)
    /\ nextEntry' = nextEntry + 1
    /\ UNCHANGED <<maxEntries, cVars, aVars, iVars, eVars, kVars, sVars, tVars>>

\* clearDebug()
ClearDebug ==
    /\ debugEntries' = <<>>
    /\ pushed' = <<>>
    /\ UNCHANGED <<maxEntries, nextEntry, cVars, aVars, iVars, eVars, kVars, sVars, tVars>>

DebugLogIdle ==
    /\ maxEntries = 50 /\ debugEntries = <<>> /\ pushed = <<>> /\ nextEntry = 1

NextDebugLog == PushDebug \/ ClearDebug

(***************************************************************************)
(* Specifications                                                          *)
(***************************************************************************)
InitContainer ==
    /\ cInput \in ContainerInputs
    /\ ContainerIdle
    /\ AnalysisIdle /\ aEnv \in UndecodableTokens /\ aEnv.decode = "throws"
    /\ InspectionIdle /\ inputValue = EmptyText
    /\ ExportIdle
    /\ KeyOrderIdle
    /\ InputSyncIdle /\ DebounceIdle /\ DebugLogIdle

InitAnalysis ==
    /\ aBytes \in {<<1>>, <<1, 200>>}
    /\ aEnv \in AnalysisTokens
    /\ aIndex \in 0..MaxIndex
    /\ aNow \in 0..MaxTime
    /\ aPc = "ready"
    /\ aResult = NoAnalysis(aBytes) /\ aPrev = NoAnalysis(aBytes)
    /\ cInput = EmptyText /\ ContainerIdle
    /\ InspectionIdle /\ inputValue = EmptyText
    /\ ExportIdle
    /\ KeyOrderIdle
    /\ InputSyncIdle /\ DebounceIdle /\ DebugLogIdle

Init ==
    /\ inputValue \in InputValues
    /\ InspectionIdle
    /\ cInput = EmptyText /\ ContainerIdle
    /\ AnalysisIdle /\ aEnv \in UndecodableTokens /\ aEnv.decode = "throws"
    /\ ExportIdle
    /\ KeyOrderIdle
    /\ InputSyncIdle /\ DebounceIdle /\ DebugLogIdle

InitExport ==
    /\ eReport \in ExportReports
    /\ eOptions = FALSE /\ eOut = JUndef /\ ePc = "ready"
    /\ cInput = EmptyText /\ ContainerIdle
    /\ AnalysisIdle /\ aEnv \in UndecodableTokens /\ aEnv.decode = "throws"
    /\ InspectionIdle /\ inputValue = EmptyText
    /\ KeyOrderIdle
    /\ InputSyncIdle /\ DebounceIdle /\ DebugLogIdle

InitKeyOrder ==
    /\ kValue \in ExportValues
    /\ kFormat = "json" /\ kOut = JUndef /\ kPc = "ready"
    /\ cInput = EmptyText /\ ContainerIdle
    /\ AnalysisIdle /\ aEnv \in UndecodableTokens /\ aEnv.decode = "throws"
    /\ InspectionIdle /\ inputValue = EmptyText
    /\ ExportIdle
    /\ InputSyncIdle /\ DebounceIdle /\ DebugLogIdle

InitInputSync ==
    /\ sProps \in InspectorProps /\ sUrl \in Texts
    /\ sInput = sProps.ucan /\ suppressNextSync = FALSE
    /\ sMounted = FALSE /\ sStep = "none" /\ sEffects = {}
    /\ cInput = EmptyText /\ ContainerIdle
    /\ AnalysisIdle /\ aEnv \in UndecodableTokens /\ aEnv.decode = "throws"
    /\ InspectionIdle /\ inputValue = EmptyText
    /\ ExportIdle /\ KeyOrderIdle /\ DebounceIdle /\ DebugLogIdle

InitDebounce ==
    /\ DebounceIdle
    /\ cInput = EmptyText /\ ContainerIdle
    /\ AnalysisIdle /\ aEnv \in UndecodableTokens /\ aEnv.decode = "throws"
    /\ InspectionIdle /\ inputValue = EmptyText
    /\ ExportIdle /\ KeyOrderIdle /\ InputSyncIdle /\ DebugLogIdle

InitDebugLog ==
    /\ maxEntries \in 1..MaxMaxEntries
    /\ debugEntries = <<>> /\ pushed = <<>> /\ nextEntry = 1
    /\ cInput = EmptyText /\ ContainerIdle
    /\ AnalysisIdle /\ aEnv \in UndecodableTokens /\ aEnv.decode = "throws"
    /\ InspectionIdle /\ inputValue = EmptyText
    /\ ExportIdle /\ KeyOrderIdle /\ InputSyncIdle /\ DebounceIdle

Next ==
    \/ SetInput
    \/ SelectToken
    \/ SelectTab
    \/ RunAnalysis
    \/ SettleAnalysis
    \/ ResumeRun
    \/ ClearInput

Spec == Init /\ [][Next]_vars

\* every pending token analysis eventually settles, and a run whose
\* Promise.all has settled is eventually resumed
SpecLive == Init /\ [][Next]_vars /\ WF_vars(SettleAnalysis) /\ WF_vars(ResumeRun)

SpecContainer == InitContainer /\ [][NextContainer]_vars

SpecAnalysis == InitAnalysis /\ [][NextAnalysis]_vars

SpecExport == InitExport /\ [][NextExport]_vars

SpecKeyOrder == InitKeyOrder /\ [][NextKeyOrder]_vars

SpecInputSync == InitInputSync /\ [][NextInputSync]_vars

SpecDebounce == InitDebounce /\ [][NextDebounce]_vars

SpecDebugLog == InitDebugLog /\ [][NextDebugLog]_vars

(***************************************************************************)
(* CLAIMS                                                                  *)
(***************************************************************************)
\* lexicographic unsigned-byte order, a proper prefix before the longer string
BytewiseLeq(a, b) ==
    \/ /\ Len(a) <= Len(b)
       /\ \A i \in 1..Len(a) : a[i] = b[i]
    \/ \E k \in 1..Min(Len(a), Len(b)) :
          /\ \A i \in 1..(k - 1) : a[i] = b[i]
          /\ a[k] < b[k]

InputTokenArray(input) == [i \in DOMAIN input.blob.doc.items |-> input.blob.doc.items[i].bytes]

\* C1: the tokens a successful parse returns are in ascending bytewise order,
\* and parsing the same container with its array in any other order returns
\* the identical tokens sequence.
C1_TokensCanonicallySorted ==
    /\ cResult.ok =>
          \A i \in 1..(Len(cResult.tokens) - 1) :
              BytewiseLeq(cResult.tokens[i], cResult.tokens[i + 1])
    /\ (cPc = "reparsed" /\ cResult.ok) =>
          (cOther.ok /\ cOther.tokens = cResult.tokens)

\* a three-token container given out of order (a prefix pair among its
\* tokens), parsed and parsed again reordered
C1_Witness ==
    /\ cPc = "reparsed" /\ cResult.ok /\ cOther.ok
    /\ Len(cResult.tokens) = 3
    /\ InputTokenArray(cInput) # cResult.tokens
    /\ <<1>> \in Range(cResult.tokens) /\ <<1, 200>> \in Range(cResult.tokens)

\* the input reaches shape validation: header, text decoding, decompression
\* and CBOR decoding all succeed under the entry point that was called
ReachesShapeValidation ==
    /\ cPc # "ready"
    /\ cInput.header \in (IF cEntry = "text" THEN {66, 67, 79, 80} ELSE HeaderBytes)
    /\ cInput.wrap = ProducerWrap(cInput.header)
    /\ cInput.blob.gz = ProducerGz(cInput.header)
    /\ cInput.blob.wellFormed

IsStrictContainerDoc(doc) ==
    /\ doc.kind = "map"
    /\ doc.keys = <<"ctn-v1">>
    /\ doc.isArray
    /\ \A i \in DOMAIN doc.items : doc.items[i].isBytes

\* C2: a decoded CBOR value is accepted only if it is a map whose single key
\* is ctn-v1 holding an array of byte strings; a non-map fails with
\* cbor_not_map, any other key set with invalid_container_map_keys, a
\* non-byte-string element with token_not_byte_string, all of stage cbor.
C2_StrictShape ==
    ReachesShapeValidation =>
        LET doc == cInput.blob.doc
        IN /\ cResult.ok <=> IsStrictContainerDoc(doc)
           /\ ~cResult.ok => cResult.stage = "cbor"
           /\ doc.kind # "map" => cResult.code = "cbor_not_map"
           /\ (doc.kind = "map" /\ doc.keys # <<"ctn-v1">>) =>
                 cResult.code = "invalid_container_map_keys"
           /\ (doc.kind = "map" /\ doc.keys = <<"ctn-v1">> /\ doc.isArray
                 /\ \E i \in DOMAIN doc.items : ~doc.items[i].isBytes) =>
                 cResult.code = "token_not_byte_string"

\* the encoding / compression pair the container format assigns to a header byte
FormatEncoding(h) ==
    CASE h \in {64, 77} -> "raw" [] h \in {66, 79} -> "base64" [] OTHER -> "base64url"
FormatCompression(h) == IF h \in {64, 66, 67} THEN "none" ELSE "gzip"

\* C3: each of the six header bytes, around a well-formed container of one
\* token, parses to that token with the byte's encoding / compression pair;
\* every other first byte is rejected at stage header.
C3_HeaderTable ==
    /\ (cPc # "ready" /\ cInput.header \notin {64, 66, 67, 77, 79, 80}) =>
          (~cResult.ok /\ cResult.stage = "header")
    /\ (ReachesShapeValidation /\ IsStrictContainerDoc(cInput.blob.doc)
          /\ Len(cInput.blob.doc.items) = 1) =>
          /\ cResult.ok
          /\ cResult.tokens = <<cInput.blob.doc.items[1].bytes>>
          /\ cResult.header.raw = cInput.header
          /\ cResult.header.encoding = FormatEncoding(cInput.header)
          /\ cResult.header.compression = FormatCompression(cInput.header)

\* a gzip base64url container ('P') of one token parsed by the bytes entry point
C3_Witness ==
    /\ cPc = "parsed" /\ cEntry = "bytes" /\ cInput.header = 80
    /\ cResult.ok /\ cResult.tokens = << <<1, 200>> >>
    /\ cResult.header.encoding = "base64url" /\ cResult.header.compression = "gzip"

\* C4: analyseBytes never rejects: whatever the collaborators do, it resolves
\* to an analysis of type delegation, invocation or unknown.
C4_NeverThrows ==
    aPc = "done" =>
        /\ aResult.settled = "resolved"
        /\ aResult.type \in {"delegation", "invocation", "unknown"}

\* C5: the decoded spec tag alone decides the type: dlg gives delegation, inv
\* gives invocation, any other tag gives unknown with the unsupported-spec
\* reason, a warn-level unsupported_payload_spec issue and status skipped.
C5_DispatchOnSpec ==
    (aPc = "done" /\ aEnv.decode = "ok") =>
        /\ aEnv.spec = "dlg" => (aResult.settled = "resolved" /\ aResult.type = "delegation")
        /\ aEnv.spec = "inv" => (aResult.settled = "resolved" /\ aResult.type = "invocation")
        /\ aEnv.spec \notin {"dlg", "inv"} =>
              /\ aResult.settled = "resolved" /\ aResult.type = "unknown"
              /\ aResult.reason = "Unsupported payload spec: "
                                    \o (IF aEnv.spec = "" THEN "undefined" ELSE aEnv.spec)
              /\ \E i \in DOMAIN aResult.issues :
                    /\ aResult.issues[i].level = "warn"
                    /\ aResult.issues[i].code = "unsupported_payload_spec"
              /\ aResult.signature.status = "skipped"

TicketGone(t) == \A r \in runs' : r.ticket # t

\* C6: a run that is resumed after a later run has started writes none of
\* tokens, report, parseState, parseError, selectedTokenIndex, activeTab and
\* calls neither onReport nor onReportError.
C6_StaleRunDiscarded ==
    [][ \A run \in runs :
            (TicketGone(run.ticket) /\ run.ticket # parseTicket) =>
                (UNCHANGED committed /\ emitted' = <<>> /\ UNCHANGED lastError) ]_vars

\* no run has committed or reported anything, yet fewer runs are suspended
\* than were started: an earlier run was resumed stale while a later one is
\* still in flight
C6_Witness ==
    /\ parseTicket >= 2
    /\ lastError = "unset" /\ report.isNull /\ tokens = <<>>
    /\ runs # {} /\ Cardinality(runs) < parseTicket
    /\ \A r \in runs : r.ticket = parseTicket

\* C7: the committed tokens are in input order whatever order the analyses
\* completed in: position i holds index i, id token-i, and the bytes of the
\* i-th input token (the container's sorted order; the whole input for a raw
\* token).
C7_TokensInInputOrder ==
    ~report.isNull =>
        /\ \A i \in DOMAIN report.tokens :
              /\ report.tokens[i].index = i - 1
              /\ report.tokens[i].id = "token-" \o ToString(i - 1)
        /\ (report.hasContainer /\ Len(report.container.tokens) > 0) =>
              [i \in DOMAIN report.tokens |-> report.tokens[i].bytes] = report.container.tokens
        /\ ~report.hasContainer => Len(report.tokens) = 1

\* a two-token container committed after its second analysis completed first
C7_Witness ==
    /\ parseState = "ready" /\ ~report.isNull
    /\ Len(tokens) = 2 /\ tokens = report.tokens
    /\ commitOrder = <<2, 1>>
    /\ report.container.tokens = << <<1>>, <<200>> >>

\* C8: a run on an input that starts with a header byte but fails container
\* parsing ends, when it is the latest run, with a committed report of source
\* raw, no container, one token and a warn issue carrying the parse error's
\* code and message, and never in the error state.
C8_FallbackToRawToken ==
    [][ \A run \in runs :
            (/\ TicketGone(run.ticket) /\ run.ticket = parseTicket
             /\ looksLikeContainerHeader(run.raw)
             /\ ~parseUcanContainerText(run.raw).ok) =>
                /\ parseState' = "ready"
                /\ report'.source = "raw" /\ ~report'.hasContainer
                /\ Len(report'.tokens) = 1 /\ tokens' = report'.tokens
                /\ \E i \in DOMAIN report'.issues :
                      /\ report'.issues[i].level = "warn"
                      /\ report'.issues[i].code = parseUcanContainerText(run.raw).code
                      /\ report'.issues[i].message = parseUcanContainerText(run.raw).message
    ]_vars

Decoded == aPc = "done" /\ aResult.settled = "resolved" /\ aResult.type # "unknown"

\* C9: expired takes precedence over pending: exp < now gives expired even
\* with nbf > now, and pending occurs only with nbf > now on a token that is
\* not expired.
C9_ExpiredBeforePending ==
    Decoded =>
        /\ (aEnv.exp.isSet /\ aEnv.exp.v < aNow) => aResult.timeline = "expired"
        /\ aResult.timeline = "pending" =>
              /\ aEnv.nbf.isSet /\ aEnv.nbf.v > aNow
              /\ ~(aEnv.exp.isSet /\ aEnv.exp.v < aNow)

\* C10 as stated: with exp unset the state is none for every nbf.
C10_NoneRegardlessOfNbf ==
    (Decoded /\ ~aEnv.exp.isSet) => aResult.timeline = "none"

\* C10 amended: with exp unset the state is pending when nbf is set and
\* nbf > now, and none otherwise.
C10_NoneUnlessNbfInFuture ==
    (Decoded /\ ~aEnv.exp.isSet) =>
        aResult.timeline = (IF aEnv.nbf.isSet /\ aEnv.nbf.v > aNow THEN "pending" ELSE "none")

\* a decoded token without exp whose nbf lies in the future
C10_Witness ==
    /\ Decoded /\ ~aEnv.exp.isSet
    /\ aEnv.nbf.isSet /\ aEnv.nbf.v > aNow
    /\ aResult.timeline = "pending"

TimelineRank(state) ==
    CASE state = "pending" -> 0 [] state = "valid" -> 1 [] state = "expired" -> 2
      [] OTHER -> 1

\* C11: re-analysing a token with a fixed exp at a later clock value only
\* moves the timeline forward along pending -> valid -> expired; expired
\* stays expired; now > exp with nbf <= now gives expired while exp = now is
\* still valid; and the type does not depend on the clock.
C11_TimelineProgression ==
    /\ (Decoded /\ aEnv.exp.isSet /\ ~(aEnv.nbf.isSet /\ aEnv.nbf.v > aNow)) =>
          aResult.timeline = (IF aNow > aEnv.exp.v THEN "expired" ELSE "valid")
    /\ aPrev.settled # "pending" =>
          /\ aResult.settled = aPrev.settled
          /\ aResult.type = aPrev.type
    /\ (Decoded /\ aPrev.settled = "resolved" /\ aEnv.exp.isSet) =>
          /\ TimelineRank(aPrev.timeline) <= TimelineRank(aResult.timeline)
          /\ aPrev.timeline = "expired" => aResult.timeline = "expired"

\* a delegation analysed while valid and analysed again after its exp
C11_Witness ==
    /\ Decoded /\ aResult.type = "delegation"
    /\ aPrev.settled = "resolved" /\ aPrev.type = "delegation"
    /\ aPrev.timeline = "valid" /\ aResult.timeline = "expired"
    /\ aEnv.exp.isSet /\ aEnv.exp.v < aNow

SignatureIssues(analysis) ==
    {i \in DOMAIN analysis.issues : analysis.issues[i].code = "signature_invalid"}

\* C12: a delegation or invocation analysis carries a warn-level
\* signature_invalid issue, with the verifier's reason as message, exactly
\* when its signature status is failed; verified and unsupported add none,
\* and a failed signature leaves the type the spec tag selects.
C12_SignatureInvalidIffFailed ==
    Decoded =>
        /\ (aResult.signature.status = "failed") <=> (SignatureIssues(aResult) # {})
        /\ \A i \in SignatureIssues(aResult) :
              /\ aResult.issues[i].level = "warn"
              /\ aResult.issues[i].message = aResult.signature.reason
              /\ aResult.issues[i].message = VerifierMessage(aEnv)
        /\ Cardinality(SignatureIssues(aResult)) <= 1
        /\ aResult.type = (IF aEnv.spec = "dlg" THEN "delegation" ELSE "invocation")

\* a delegation whose verifier rejects the signature, analysed in full
C12_Witness ==
    /\ Decoded /\ aResult.type = "delegation"
    /\ aEnv.verify = "throwsOther"
    /\ aResult.signature.status = "failed"
    /\ SignatureIssues(aResult) # {}
    /\ aResult.timeline = "valid"

Resolved == aPc = "done" /\ aResult.settled = "resolved"

\* C13: signature status skipped occurs exactly on analyses of type unknown;
\* an envelope decode failure gives an unknown analysis with an
\* envelope_decode_failed issue whose message is the reason; a delegation or
\* invocation has status verified, failed or unsupported.
C13_SkippedOnlyForUnknown ==
    Resolved =>
        /\ (aResult.signature.status = "skipped") <=> (aResult.type = "unknown")
        /\ aResult.type \in {"delegation", "invocation"} =>
              aResult.signature.status \in {"verified", "failed", "unsupported"}
        /\ aEnv.decode # "ok" =>
              /\ aResult.type = "unknown"
              /\ aResult.signature.reason = aResult.reason
              /\ \E i \in DOMAIN aResult.issues :
                    /\ aResult.issues[i].code = "envelope_decode_failed"
                    /\ aResult.issues[i].message = aResult.reason
        /\ (aEnv.decode = "ok" /\ aEnv.spec \notin {"dlg", "inv"}) =>
              aResult.type = "unknown"

\* bytes whose envelope decoding throws, analysed
C13_Witness ==
    /\ Resolved /\ aEnv.decode = "throws"
    /\ aResult.type = "unknown" /\ aResult.signature.status = "skipped"
    /\ aResult.reason = "Invalid envelope"

Parsed == cPc # "ready" /\ cResult.ok

DiagnosticsOf(result, code) ==
    {i \in DOMAIN result.diagnostics : result.diagnostics[i].code = code}

\* the byte sequences found at more than one position of the array
DuplicatedEntries(arr) ==
    {v \in Range(arr) : Cardinality({i \in DOMAIN arr : arr[i] = v}) > 1}

\* C14: a warn-level duplicate_tokens diagnostic is emitted exactly when some
\* byte sequence occurs more than once in the container's array, and the
\* count it reports is the number of duplicated entries.
C14_DuplicateTokens ==
    Parsed =>
        LET arr == InputTokenArray(cInput)
            found == DiagnosticsOf(cResult, "duplicate_tokens")
        IN /\ (found # {}) <=> (DuplicatedEntries(arr) # {})
           /\ Cardinality(found) <= 1
           /\ \A i \in found :
                 /\ cResult.diagnostics[i].level = "warn"
                 /\ cResult.diagnostics[i].count = Cardinality(DuplicatedEntries(arr))

\* an array <<a, b, a, b>> of two different tokens, each given twice and
\* never side by side
C14_Witness ==
    /\ Parsed
    /\ Len(InputTokenArray(cInput)) = 4
    /\ Cardinality(DuplicatedEntries(InputTokenArray(cInput))) = 2
    /\ \A i \in 1..3 : InputTokenArray(cInput)[i] # InputTokenArray(cInput)[i + 1]
    /\ \E i \in DiagnosticsOf(cResult, "duplicate_tokens") : cResult.diagnostics[i].count = 2

\* C15: a warn-level tokens_not_sorted diagnostic is emitted exactly when the
\* array as given in the input is not in non-decreasing bytewise order;
\* equal neighbours do not trigger it, and it is decided on the input order
\* although the returned tokens are sorted.
C15_TokensNotSorted ==
    Parsed =>
        LET arr == InputTokenArray(cInput)
            found == DiagnosticsOf(cResult, "tokens_not_sorted")
        IN /\ (found # {}) <=>
                 (\E i \in 1..(Len(arr) - 1) : ~BytewiseLeq(arr[i], arr[i + 1]))
           /\ Cardinality(found) <= 1
           /\ \A i \in found : cResult.diagnostics[i].level = "warn"

\* an array given out of order: the diagnostic is raised and the tokens come
\* back sorted
C15_Witness ==
    /\ Parsed
    /\ InputTokenArray(cInput) = << <<200>>, <<1, 200>>, <<1>> >>
    /\ cResult.tokens = << <<1>>, <<1, 200>>, <<200>> >>
    /\ DiagnosticsOf(cResult, "tokens_not_sorted") # {}
    /\ DiagnosticsOf(cResult, "duplicate_tokens") = {}

Called == cPc # "ready"

\* the headers the entry point that was called accepts
AcceptedHeaders == IF cEntry = "text" THEN {66, 67, 79, 80} ELSE HeaderBytes

\* the payload is text of the header's alphabet; '=' is stripped for
\* base64url and completed for base64, so only the alphabet decides
PayloadDecodes ==
    IF cInput.header \in {64, 77} THEN TRUE
    ELSE IF cInput.wrap.txt = "empty" THEN cEntry = "bytes"
    ELSE cInput.wrap.txt \in {"common", IF cInput.header \in {66, 79} THEN "std" ELSE "url"}

\* the bytes the payload decodes to are what the producer encoded
PayloadIntact ==
    /\ cInput.wrap.txt # "empty"
    /\ cInput.header \in {64, 77} => cInput.wrap.txt = "binary"

\* the stage of the first step that cannot succeed on the input ("" if none)
FirstFailingStage ==
    IF cInput.header \notin AcceptedHeaders THEN "header"
    ELSE IF ~PayloadDecodes THEN "decode"
    ELSE IF cInput.header \in {77, 79, 80} /\ ~(PayloadIntact /\ cInput.blob.gz = "gzip")
        THEN "decompress"
    ELSE IF ~(PayloadIntact /\ cInput.blob.wellFormed
              /\ (cInput.header \in {64, 66, 67} => cInput.blob.gz = "none"))
        THEN "cbor"
    ELSE IF ~(IsStrictContainerDoc(cInput.blob.doc)) THEN "cbor"
    ELSE ""

\* C16: parsing runs header -> base64 decode -> gzip decompress -> CBOR
\* decode -> shape validation; every failure is a ContainerParseError tagged
\* with the stage of the first step that failed, and parsing succeeds when
\* no step fails.
C16_StageOfFirstFailure ==
    Called =>
        /\ cResult.ok <=> (FirstFailingStage = "")
        /\ ~cResult.ok =>
              /\ cResult.stage \in {"header", "decode", "decompress", "cbor"}
              /\ cResult.stage = FirstFailingStage

\* a gzip container header around bytes that are neither gzip nor CBOR:
\* the failure is tagged decompress, not cbor
C16_Witness ==
    /\ Called /\ cInput.header = 79 /\ cInput.wrap.txt = "std"
    /\ cInput.blob.gz = "none" /\ ~cInput.blob.wellFormed
    /\ ~cResult.ok /\ cResult.stage = "decompress"

\* C17: parseUcanContainerText rejects the headers '@' and 'M' with code
\* raw_bytes_header_in_text, a first character outside the table with
\* unknown_header, and parseUcanContainerBytes accepts '@' and 'M'.
C17_RawHeaderInText ==
    Called =>
        /\ (cEntry = "text" /\ cInput.header \in {64, 77}) =>
              /\ ~cResult.ok /\ cResult.stage = "header"
              /\ cResult.code = "raw_bytes_header_in_text"
        /\ (cInput.header \notin {64, 66, 67, 77, 79, 80, -1}) =>
              (~cResult.ok /\ cResult.code = "unknown_header")
        /\ (cEntry = "bytes" /\ cInput.header \in {64, 77}) =>
              /\ cResult.ok \/ cResult.stage # "header"
              /\ (cInput.wrap = ProducerWrap(cInput.header)
                    /\ cInput.blob.gz = ProducerGz(cInput.header)
                    /\ cInput.blob.wellFormed
                    /\ IsStrictContainerDoc(cInput.blob.doc)) => cResult.ok

\* a well-formed 'M' container handed to the text entry point
C17_Witness ==
    /\ Called /\ cEntry = "text" /\ cInput.header = 77
    /\ cInput.wrap = ProducerWrap(77) /\ cInput.blob.gz = "gzip" /\ cInput.blob.wellFormed
    /\ IsStrictContainerDoc(cInput.blob.doc)
    /\ ~cResult.ok /\ cResult.code = "raw_bytes_header_in_text"

ParseWith(entry, input) ==
    IF entry = "text" THEN parseUcanContainerText(input) ELSE parseUcanContainerBytes(input)

\* the same input with its '=' padding completed
FullyPadded(input) == [input EXCEPT !.wrap.pad = FullPad(input.wrap.rem)]

\* C18: for headers B and O a payload whose length is not a multiple of 4 is
\* completed with '=' and reported by a notice-level base64_padding_missing
\* diagnostic; it parses to what the correctly padded payload parses to.
C18_PaddingTolerated ==
    (Called /\ cInput.header \in {66, 79} /\ cInput.wrap.txt \in {"common", "std"}) =>
        LET padded == ParseWith(cEntry, FullyPadded(cInput))
            short == (cInput.wrap.rem + cInput.wrap.pad) % 4 # 0
            found == DiagnosticsOf(cResult, "base64_padding_missing")
        IN /\ cResult.ok = padded.ok
           /\ cResult.tokens = padded.tokens
           /\ ~cResult.ok => (cResult.stage # "decode" /\ cResult.code = padded.code)
           /\ cResult.ok =>
                 /\ (found # {}) <=> short
                 /\ \A i \in found : cResult.diagnostics[i].level = "notice"
                 /\ DiagnosticsOf(padded, "base64_padding_missing") = {}

\* a 'B' container of one token whose two '=' are missing
C18_Witness ==
    /\ Called /\ cEntry = "text" /\ cInput.header = 66
    /\ cInput.wrap = Wrap("std", 2, 0)
    /\ cResult.ok /\ cResult.tokens = << <<1>> >>
    /\ DiagnosticsOf(cResult, "base64_padding_missing") # {}

\* C19: a container whose ctn-v1 array is empty parses successfully with no
\* tokens and a notice-level empty_container diagnostic, and with neither a
\* duplicate_tokens nor a tokens_not_sorted diagnostic.
C19_EmptyContainer ==
    /\ (ReachesShapeValidation /\ IsStrictContainerDoc(cInput.blob.doc)
          /\ Len(cInput.blob.doc.items) = 0) =>
          /\ cResult.ok /\ cResult.tokens = <<>>
          /\ Cardinality(DiagnosticsOf(cResult, "empty_container")) = 1
          /\ \A i \in DiagnosticsOf(cResult, "empty_container") :
                cResult.diagnostics[i].level = "notice"
          /\ DiagnosticsOf(cResult, "duplicate_tokens") = {}
          /\ DiagnosticsOf(cResult, "tokens_not_sorted") = {}
    /\ (Parsed /\ Len(cInput.blob.doc.items) > 0) =>
          DiagnosticsOf(cResult, "empty_container") = {}

\* a gzip base64 container ('O') with an empty array, parsed from text
C19_Witness ==
    /\ Parsed /\ cEntry = "text" /\ cInput.header = 79
    /\ cInput.blob.doc = ContainerDoc(<<>>)
    /\ cResult.tokens = <<>>
    /\ DiagnosticsOf(cResult, "empty_container") # {}

(*--------------------------- C20 -----------------------------------------*)
\* the token objects of an exported document
ExportedTokens == Get(eOut, "tokens").kids

\* C20 as stated: for every report, the default plain-JSON export contains
\* none of the quoted texts "bytes", "payloadBytes", "cbor" and contains
\* "tokens"; the export with the raw-bytes option contains "bytes".
C20_NoBytesTextInDefaultExport ==
    ePc = "done" =>
        IF eOptions
        THEN "bytes" \in QuotedStrings(eOut)
        ELSE /\ {"bytes", "payloadBytes", "cbor"} \cap QuotedStrings(eOut) = {}
             /\ "tokens" \in QuotedStrings(eOut)

\* C20, amended: the exported document always has a top-level tokens array
\* with one object per token of the report; a token object has a bytes member
\* exactly when the raw-bytes option is set; the container object is present
\* exactly when the report has a container, and it has the members
\* payloadBytes, cbor and tokens exactly when the raw-bytes option is set.
C20_RawByteFieldsFollowOption ==
    ePc = "done" =>
        /\ HasKey(eOut, "tokens")
        /\ Get(eOut, "tokens").t = "arr"
        /\ Len(ExportedTokens) = Len(eReport.tokens)
        /\ \A i \in DOMAIN ExportedTokens :
              HasKey(ExportedTokens[i][2], "bytes") <=> eOptions
        /\ HasKey(eOut, "container") <=> eReport.hasContainer
        /\ eReport.hasContainer =>
              \A k \in {"payloadBytes", "cbor", "tokens"} :
                  HasKey(Get(eOut, "container"), k) <=> eOptions

\* a default export of a container report with two tokens, one of them a
\* delegation whose meta record has a member named bytes
C20_Witness ==
    /\ ePc = "done" /\ ~eOptions
    /\ eReport.hasContainer
    /\ Len(eReport.tokens) = 2
    /\ \E i \in DOMAIN eReport.tokens :
          eReport.tokens[i].type = "delegation" /\ eReport.tokens[i].user = <<"bytes">>
    /\ \A i \in DOMAIN ExportedTokens : ~HasKey(ExportedTokens[i][2], "bytes")

(*--------------------------- C21 -----------------------------------------*)
\* the member names of a printed object, in the order printed
PrintedKeys(value) == [i \in DOMAIN value.kids |-> value.kids[i][1]]

\* every object of a printed document has its members in the order
\* getPreferredKeyOrder gives for its member names: template names first in
\* template order, the other names in ascending lexical order
RECURSIVE InPreferredOrder(_)
InPreferredOrder(value) ==
    IF value.t = "obj" THEN
        /\ PrintedKeys(value) = getPreferredKeyOrder(KeysOf(value))
        /\ \A i \in DOMAIN value.kids : InPreferredOrder(value.kids[i][2])
    ELSE IF value.t = "arr" THEN
        \A i \in DOMAIN value.kids : InPreferredOrder(value.kids[i][2])
    ELSE TRUE

\* C21: in either format and for any insertion order, every object of the
\* output (nested ones included) is printed with the names of its matching
\* template first in template order followed by the remaining names in
\* ascending lexical order, or in full lexical order when it matches no
\* template; and both formats print the same top-level member order.
C21_DeterministicKeyOrder ==
    kPc = "done" =>
        /\ InPreferredOrder(kOut)
        /\ PrintedKeys(stringifyExportValue(kValue, "json"))
             = PrintedKeys(stringifyExportValue(kValue, "dag-json"))

(*--------------------------- C22 -----------------------------------------*)
\* C22: when the envelope decodes but its version or spec header field is
\* absent, the analysis still completes: it is a delegation for spec dlg and
\* an invocation for spec inv, and its issues list starts with the
\* notice-level missing_header_fields issue, later issues following it.
C22_MissingHeaderFieldsAdditive ==
    (aPc = "done" /\ aEnv.decode = "ok" /\ (~aEnv.version \/ aEnv.spec = "")) =>
        /\ aResult.settled = "resolved"
        /\ aEnv.spec = "dlg" => aResult.type = "delegation"
        /\ aEnv.spec = "inv" => aResult.type = "invocation"
        /\ Len(aResult.issues) >= 1
        /\ aResult.issues[1].level = "notice"
        /\ aResult.issues[1].code = "missing_header_fields"
        /\ \A i \in 2..Len(aResult.issues) :
              aResult.issues[i].code # "missing_header_fields"

(*--------------------------- C23 -----------------------------------------*)
\* C23: from a clearInput() call until the next runAnalysis call is started,
\* tokens stays empty, report stays null and parseState stays idle, and a run
\* that was in flight at the clearInput() call writes nothing and calls no
\* callback when it settles or resumes.
C23_ClearedStaysCleared ==
    [][ (cleared /\ cleared') =>
            /\ tokens' = <<>> /\ report' = NullReport /\ parseState' = "idle"
            /\ runs' # runs => emitted' = <<>> ]_vars

(*--------------------------- C24 -----------------------------------------*)
\* C24: a committed report has source container exactly when it carries a
\* container, and then report.tokens[i].bytes = container.tokens[i] for every
\* i, both lists having the same length.
C24_ReportMatchesContainer ==
    ~report.isNull =>
        /\ report.source = "container" <=> report.hasContainer
        /\ report.hasContainer =>
              /\ Len(report.tokens) = Len(report.container.tokens)
              /\ \A i \in DOMAIN report.tokens :
                    report.tokens[i].bytes = report.container.tokens[i]

(*--------------------------- C25 -----------------------------------------*)
\* no runAnalysis call is suspended
Resting == runs = {}

\* C25: when every pending analysis eventually settles, parseState always
\* leaves parsing for ready, error or idle; with no run in flight it is never
\* parsing, and when it is ready the committed tokens and report are those
\* of the most recently started run.
C25_EventuallyRests ==
    /\ (parseState = "parsing") ~> (parseState \in {"ready", "error", "idle"})
    /\ [](Resting => parseState \in {"ready", "error", "idle"})
    /\ []((Resting /\ parseState = "ready") =>
            /\ commitTicket = parseTicket
            /\ ~report.isNull /\ report.tokens = tokens)

\* two runs were started, the earlier one was discarded and the later one
\* committed its tokens and report
C25_Witness ==
    /\ Resting /\ parseState = "ready"
    /\ parseTicket = 2 /\ commitTicket = 2
    /\ Len(tokens) > 0

(*--------------------------- C26 -----------------------------------------*)
\* C26: whenever no run is in flight, the last value delivered through
\* onReportError equals parseError (null before any delivery), also after
\* clearInput() cleared a displayed error.
C26_ErrorNotified ==
    Resting =>
        IF lastError = "unset" THEN parseError = NullError ELSE lastError = parseError

(*--------------------------- C27 -----------------------------------------*)
\* C27: every user edit of inputValue writes the URL when syncUrl is on and
\* schedules an analysis when autoInspect is on, whatever programmatic
\* assignment (mock token, URL bootstrap) was suppressed before it.
C27_UserEditAlwaysSyncs ==
    [][ (sStep' = "userEdit" /\ sInput' # sInput) =>
            /\ sProps.syncUrl => ("writeToUrl" \in sEffects' /\ sUrl' = sInput')
            /\ sProps.autoInspect => "schedule:input" \in sEffects' ]_vars

(*--------------------------- C28 -----------------------------------------*)
\* C28: the callback only ever runs for the last schedule call, once, with
\* its arguments and DelayMs after it, and never after a cancel(); at most
\* one timer is pending; while the last schedule call is neither cancelled
\* nor run its timer is pending and not overdue; after cancel() or unmount
\* no timer is pending.
C28_Debounced ==
    /\ [][ calls' # calls =>
             /\ Len(calls') = Len(calls) + 1
             /\ lastSchedule.state = "pending"
             /\ calls'[Len(calls')].id = lastSchedule.id
             /\ calls'[Len(calls')].args = lastSchedule.args
             /\ calls'[Len(calls')].at = lastSchedule.at + DelayMs ]_vars
    /\ [](Cardinality(timers) <= 1)
    /\ [](lastSchedule.state = "pending" =>
            /\ timers = {[id |-> lastSchedule.id, due |-> lastSchedule.at + DelayMs,
                          args |-> lastSchedule.args]}
            /\ clock <= lastSchedule.at + DelayMs)
    /\ [](lastSchedule.state \in {"cancelled", "none", "ran"} => timers = {})

\* a burst of two schedule calls less than DelayMs apart, after which the
\* callback ran once, for the second call
C28_Witness ==
    /\ Len(calls) = 1
    /\ calls[1].id = 2
    /\ lastSchedule.id = 2 /\ lastSchedule.state = "ran"
    /\ lastSchedule.at < DelayMs

(*--------------------------- C29 -----------------------------------------*)
\* C29: debugEntries never holds more than maxEntries entries, and they are
\* the most recently pushed ones, in push order.
C29_DebugLogBounded ==
    /\ Len(debugEntries) <= maxEntries
    /\ debugEntries = SubSeq(pushed, Len(pushed) - Min(Len(pushed), maxEntries) + 1,
                             Len(pushed))

====
